---- MODULE Spec2Model ----
(***************************************************************************)
(* Model of the Bora pipeline: the lexer (lexical_analyzer.py), the        *)
(* parser (syntax_analyzer.py), the semantic analyzer                      *)
(* (semantic_analyzer.py) on the trees the parser builds, the              *)
(* three-address-code generator (intermediate_code_generator.py) and the   *)
(* TAC interpreter (code_executor.py).                                     *)
(*                                                                         *)
(* Text is modelled as text: a Python str is a sequence of one-character   *)
(* strings, so that startswith / endswith / split / rpartition / int() /   *)
(* float() / str() are computed as the code computes them.                 *)
(***************************************************************************)
EXTENDS Integers, Sequences, FiniteSets, TLC

VARIABLES
    phase,            \* pipeline position: "lex", "syn", "sem", "ast", "tac", "running", "done", ...
    ast,              \* IntermediateCodeGenerator.ast (the annotated AST)
    instructions,     \* generator.instructions, then CodeExecutor.instructions
    temp_counter,     \* IntermediateCodeGenerator.temp_counter
    label_counter,    \* IntermediateCodeGenerator.label_counter
    labels,           \* CodeExecutor.labels
    pc,               \* CodeExecutor.pc
    iteration_count,  \* local of CodeExecutor.execute
    variables,        \* CodeExecutor.variables
    output,           \* CodeExecutor.output
    stderr,           \* diagnostics printed to sys.stderr by the interpreter
    stdin,            \* what input() has returned so far, in order
    rpos,             \* number of input() calls made by the current run
    run,              \* 1 for the first CodeExecutor, 2 for a second fresh one
    prev,             \* final state of the first run, kept for comparison
    arith,            \* operands and results of the pure arithmetic helpers
    code,             \* the source text given to LexicalAnalyzer.analyze
    position,         \* where finditer looks for the next match (0-based)
    line_num,         \* local of LexicalAnalyzer.analyze
    line_start,       \* local of LexicalAnalyzer.analyze
    tokens,           \* LexicalAnalyzer.tokens
    lex_errors,       \* LexicalAnalyzer.errors
    symbol_table,     \* SemanticAnalyzer.symbol_table
    cross_reference_table,  \* SemanticAnalyzer.cross_reference_table
    current_address,  \* SemanticAnalyzer.current_address
    errors,           \* SemanticAnalyzer.errors
    pending,          \* the visits of SemanticAnalyzer.analyze still to run
    syn_tokens,       \* SyntaxAnalyzer.tokens
    current_token_index,  \* SyntaxAnalyzer.current_token_index
    syn_errors,       \* SyntaxAnalyzer.errors
    error_locations,  \* SyntaxAnalyzer.error_locations
    nodo              \* local of parse_lista_declaracion: the list node being built

\* the state of the parser
syntax == <<syn_tokens, current_token_index, syn_errors, error_locations, nodo>>

\* the state of the front end: the lexer, the parser and the semantic analyzer
front == <<code, position, line_num, line_start, tokens, lex_errors,
           symbol_table, cross_reference_table, current_address, errors,
           pending, syntax>>

\* the state of the back end: the generator and the interpreter
back == <<instructions, temp_counter, label_counter, labels, pc,
          iteration_count, variables, output, stderr, stdin, rpos,
          run, prev, arith>>

vars == <<phase, ast, back, front>>

\* None where a Token or an ASTNode is expected
NoToken == [token_type |-> "None"]

NoNode == [node_type |-> "None"]

\* SyntaxAnalyzer.__init__
ParserIdle ==
    /\ syn_tokens = <<>>
    /\ current_token_index = -1
    /\ syn_errors = <<>>
    /\ error_locations = {}
    /\ nodo = NoNode

-----------------------------------------------------------------------------
(* Python str operations on sequences of characters                        *)

Digits == <<"0", "1", "2", "3", "4", "5", "6", "7", "8", "9">>

IsDigit(c) == \E i \in 1..10 : Digits[i] = c

DigitVal(c) == (CHOOSE i \in 1..10 : Digits[i] = c) - 1

\* str.isspace() on one character (space and tab are the blanks of the model)
IsSpace(c) == c = " " \/ c = "\t"

\* s[i:j] with Python's 0-based, end-exclusive indices (0 <= i, j <= len)
Slice(s, i, j) == IF j <= i THEN <<>> ELSE SubSeq(s, i + 1, j)

\* s.startswith(p)
StartsWith(s, p) == Len(p) <= Len(s) /\ SubSeq(s, 1, Len(p)) = p

\* s.endswith(p)
EndsWith(s, p) ==
    Len(p) <= Len(s) /\ SubSeq(s, Len(s) - Len(p) + 1, Len(s)) = p

\* the 0-based offsets at which p occurs in s
Occurrences(s, p) ==
    {i \in 0..(Len(s) - Len(p)) : SubSeq(s, i + 1, i + Len(p)) = p}

\* p in s
Contains(s, p) == Occurrences(s, p) # {}

\* c in s, for one character
HasChar(s, c) == \E i \in 1..Len(s) : s[i] = c

Min(S) == CHOOSE x \in S : \A y \in S : x <= y

Max(S) == CHOOSE x \in S : \A y \in S : x >= y

\* s.partition(sep): <<head, sep, tail>> at the first occurrence
Partition(s, sep) ==
    IF Contains(s, sep)
    THEN LET i == Min(Occurrences(s, sep))
         IN  <<Slice(s, 0, i), sep, Slice(s, i + Len(sep), Len(s))>>
    ELSE <<s, <<>>, <<>>>>

\* s.rpartition(sep): <<head, sep, tail>> at the last occurrence
RPartition(s, sep) ==
    IF Contains(s, sep)
    THEN LET i == Max(Occurrences(s, sep))
         IN  <<Slice(s, 0, i), sep, Slice(s, i + Len(sep), Len(s))>>
    ELSE <<<<>>, <<>>, s>>

\* s.lstrip()
RECURSIVE LStrip(_)
LStrip(s) ==
    IF s # <<>> /\ IsSpace(Head(s)) THEN LStrip(Tail(s)) ELSE s

\* s.rstrip()
RECURSIVE RStrip(_)
RStrip(s) ==
    IF s # <<>> /\ IsSpace(s[Len(s)]) THEN RStrip(SubSeq(s, 1, Len(s) - 1)) ELSE s

\* s.strip()
Strip(s) == RStrip(LStrip(s))

\* the first run of non-blank characters of s (s has no leading blank)
RECURSIVE FirstWord(_)
FirstWord(s) ==
    IF s = <<>> \/ IsSpace(Head(s)) THEN <<>> ELSE <<Head(s)>> \o FirstWord(Tail(s))

\* s.split(): the maximal runs of non-blank characters
RECURSIVE Split(_)
Split(s) ==
    LET t == LStrip(s)
    IN  IF t = <<>> THEN <<>>
        ELSE LET w == FirstWord(t)
             IN  <<w>> \o Split(Slice(t, Len(w), Len(t)))

\* s.split('=', 1): <<s>> when there is no '=', else the two sides
SplitFirstEq(s) ==
    IF HasChar(s, "=")
    THEN LET p == Partition(s, <<"=">>) IN <<p[1], p[3]>>
    ELSE <<s>>

\* the decimal digits of a natural number
RECURSIVE NatToStr(_)
NatToStr(n) ==
    IF n < 10 THEN <<Digits[n + 1]>>
    ELSE NatToStr(n \div 10) \o <<Digits[(n % 10) + 1]>>

\* str(n) for an int
IntToStr(n) == IF n < 0 THEN <<"-">> \o NatToStr(0 - n) ELSE NatToStr(n)

\* the value of a non-empty string of digits
RECURSIVE DigitsVal(_)
DigitsVal(s) ==
    IF s = <<>> THEN 0
    ELSE DigitsVal(SubSeq(s, 1, Len(s) - 1)) * 10 + DigitVal(s[Len(s)])

\* digits with single underscores between digits, as int() and float() accept
DigitGroup(s) ==
    /\ s # <<>>
    /\ \A i \in 1..Len(s) : IsDigit(s[i]) \/ s[i] = "_"
    /\ IsDigit(s[1]) /\ IsDigit(s[Len(s)])
    /\ \A i \in 1..(Len(s) - 1) : ~(s[i] = "_" /\ s[i + 1] = "_")

RECURSIVE DropUnderscores(_)
DropUnderscores(s) ==
    IF s = <<>> THEN <<>>
    ELSE IF Head(s) = "_" THEN DropUnderscores(Tail(s))
         ELSE <<Head(s)>> \o DropUnderscores(Tail(s))

\* the sign prefix accepted by int() and float()
SignOf(s) == IF s # <<>> /\ s[1] = "-" THEN 0 - 1 ELSE 1

Unsigned(s) == IF s # <<>> /\ (s[1] = "-" \/ s[1] = "+") THEN Tail(s) ELSE s

\* int(s): [ok |-> FALSE] stands for ValueError
PyInt(s) ==
    LET body == Unsigned(Strip(s))
    IN  IF DigitGroup(body)
        THEN [ok |-> TRUE, n |-> SignOf(Strip(s)) * DigitsVal(DropUnderscores(body))]
        ELSE [ok |-> FALSE, n |-> 0]

RECURSIVE Pow(_, _)
Pow(b, e) == IF e <= 0 THEN 1 ELSE b * Pow(b, e - 1)

\* float(s) for decimal text without exponent: the value as the fraction
\* n/d; [ok |-> FALSE] stands for ValueError.  Exponent forms and the words
\* inf / nan are outside the alphabet of the model's inputs.
PyFloat(s) ==
    LET t    == Strip(s)
        body == Unsigned(t)
        p    == Partition(body, <<".">>)
        ip   == p[1]
        fp   == p[3]
        okI  == ip = <<>> \/ DigitGroup(ip)
        okF  == fp = <<>> \/ DigitGroup(fp)
        good == /\ okI /\ okF
                /\ ~(ip = <<>> /\ fp = <<>>)
        fd   == DropUnderscores(fp)
    IN  IF good
        THEN [ok |-> TRUE,
              n  |-> SignOf(t) * (DigitsVal(DropUnderscores(ip)) * Pow(10, Len(fd))
                                  + DigitsVal(fd)),
              d  |-> Pow(10, Len(fd))]
        ELSE [ok |-> FALSE, n |-> 0, d |-> 1]

-----------------------------------------------------------------------------
(* Python values held by the interpreter                                   *)
(* A value is a record [t, n, d, s]: t is the Python type, n/d the number  *)
(* (d = 1 for int and bool; a float is the fraction n/d in lowest terms;   *)
(* the programs of the model only produce floats that binary floating      *)
(* point represents exactly), s the text of a str.                         *)

IntV(i) == [t |-> "int", n |-> i, d |-> 1, s |-> <<>>]

BoolV(b) == [t |-> "bool", n |-> IF b THEN 1 ELSE 0, d |-> 1, s |-> <<>>]

StrV(x) == [t |-> "str", n |-> 0, d |-> 1, s |-> x]

NoneV == [t |-> "None", n |-> 0, d |-> 1, s |-> <<>>]

\* a result of native Python arithmetic that the model does not compute
\* (str repetition, str ordering, str formatting, fractional powers)
UnmodelledV == [t |-> "unmodelled", n |-> 0, d |-> 1, s |-> <<>>]

Abs(i) == IF i < 0 THEN 0 - i ELSE i

RECURSIVE Gcd(_, _)
Gcd(a, b) == IF b = 0 THEN a ELSE Gcd(b, a % b)

FloatV(nn, dd) ==
    LET sg == IF dd < 0 THEN 0 - 1 ELSE 1
        g  == Gcd(Abs(nn), Abs(dd))
    IN  [t |-> "float", n |-> (sg * nn) \div g, d |-> Abs(dd) \div g, s |-> <<>>]

\* isinstance(v, int): bool is a subclass of int
IsIntLike(v) == v.t = "int" \/ v.t = "bool"

\* isinstance(v, (int, float))
IsNum(v) == IsIntLike(v) \/ v.t = "float"

\* bool(v)
Truthy(v) ==
    IF IsNum(v) THEN v.n # 0
    ELSE IF v.t = "str" THEN v.s # <<>>
    ELSE FALSE

\* left == right
PyEq(l, r) ==
    IF IsNum(l) /\ IsNum(r) THEN l.n * r.d = r.n * l.d
    ELSE IF l.t = "str" /\ r.t = "str" THEN l.s = r.s
    ELSE l.t = "None" /\ r.t = "None"

\* left < right on numbers
NumLt(l, r) == l.n * r.d < r.n * l.d

\* a // b on ints: the quotient rounded toward minus infinity
FloorDiv(a, b) == IF b > 0 THEN a \div b ELSE (0 - a) \div (0 - b)

\* a % b on ints: the remainder has the sign of the divisor
PyMod(a, b) == IF b > 0 THEN a % b ELSE 0 - ((0 - a) % (0 - b))

\* the quotient rounded toward zero
TruncDiv(a, b) ==
    IF (a >= 0) = (b > 0) THEN Abs(a) \div Abs(b) ELSE 0 - (Abs(a) \div Abs(b))

\* the result of native + - * on two numbers
NumArith(op, l, r) ==
    LET nn == CASE op = "+" -> l.n * r.d + r.n * l.d
                [] op = "-" -> l.n * r.d - r.n * l.d
                [] OTHER    -> l.n * r.n
        dd == l.d * r.d
    IN  IF IsIntLike(l) /\ IsIntLike(r) THEN IntV(nn) ELSE FloatV(nn, dd)

\* left ** right on two numbers; err is TRUE for ZeroDivisionError
NumPow(l, r) ==
    IF ~IsIntLike(r) THEN [v |-> UnmodelledV, err |-> FALSE]
    ELSE IF r.n >= 0
         THEN [v |-> IF IsIntLike(l) THEN IntV(Pow(l.n, r.n))
                     ELSE FloatV(Pow(l.n, r.n), Pow(l.d, r.n)),
               err |-> FALSE]
         ELSE IF l.n = 0 THEN [v |-> IntV(0), err |-> TRUE]
              ELSE [v |-> FloatV(Pow(l.d, 0 - r.n), Pow(l.n, 0 - r.n)), err |-> FALSE]

\* the diagnostics of the interpreter, by the text that is printed
DivZeroMsg == "Error: Division por cero"

ModZeroMsg == "Error: Modulo por cero"

OpErrorMsg == "Error en operacion"

UnknownOpMsg == "Error: Operador desconocido"

CannotEvalMsg == "Advertencia: No se pudo evaluar expresion"

NoLabelMsg == "Error: Etiqueta no encontrada"

ReadFailMsg == "Error: No se pudo leer entrada"

LimitMsg == "Advertencia: Se alcanzo el limite de iteraciones"

RaisedMsg == "Error durante la ejecucion"

\* what the except clause of _apply_operator returns
OpFailed == [v |-> IntV(0), err |-> <<OpErrorMsg>>]

OpOk(val) == [v |-> val, err |-> <<>>]

\* CodeExecutor._apply_operator: the value returned and what is printed
ApplyOperator(op, left, right) ==
    LET nums == IsNum(left) /\ IsNum(right)
        ints == IsIntLike(left) /\ IsIntLike(right)
        strs == left.t = "str" /\ right.t = "str"
        zero == IsNum(right) /\ right.n = 0
    IN  CASE op \in {"+", "-", "*"} ->
               IF nums THEN OpOk(NumArith(op, left, right))
               ELSE IF op = "+" /\ strs THEN OpOk(StrV(left.s \o right.s))
               ELSE IF op = "*" /\ ((left.t = "str" /\ IsIntLike(right))
                                    \/ (IsIntLike(left) /\ right.t = "str"))
                    THEN OpOk(UnmodelledV)
               ELSE OpFailed
          [] op = "/" ->
               IF zero THEN [v |-> IntV(0), err |-> <<DivZeroMsg>>]
               ELSE IF ints THEN OpOk(IntV(FloorDiv(left.n, right.n)))
               ELSE IF nums THEN OpOk(FloatV(left.n * right.d, left.d * right.n))
               ELSE OpFailed
          [] op = "%" ->
               IF zero THEN [v |-> IntV(0), err |-> <<ModZeroMsg>>]
               ELSE IF ints THEN OpOk(IntV(PyMod(left.n, right.n)))
               ELSE IF nums
                    THEN LET q == FloorDiv(left.n * right.d, left.d * right.n)
                         IN  OpOk(FloatV(left.n * right.d - q * right.n * left.d,
                                         left.d * right.d))
               ELSE IF left.t = "str" THEN OpOk(UnmodelledV)
               ELSE OpFailed
          [] op = "^" ->
               IF nums
               THEN LET p == NumPow(left, right)
                    IN  IF p.err THEN OpFailed ELSE OpOk(p.v)
               ELSE OpFailed
          [] op = "==" -> OpOk(BoolV(PyEq(left, right)))
          [] op = "!=" -> OpOk(BoolV(~PyEq(left, right)))
          [] op \in {"<", ">", "<=", ">="} ->
               IF nums
               THEN OpOk(BoolV(CASE op = "<"  -> NumLt(left, right)
                                 [] op = ">"  -> NumLt(right, left)
                                 [] op = "<=" -> ~NumLt(right, left)
                                 [] OTHER     -> ~NumLt(left, right)))
               ELSE IF strs THEN OpOk(UnmodelledV)
               ELSE OpFailed
          [] op = "&&" -> OpOk(BoolV(Truthy(left) /\ Truthy(right)))
          [] op = "||" -> OpOk(BoolV(Truthy(left) \/ Truthy(right)))
          [] OTHER -> [v |-> IntV(0), err |-> <<UnknownOpMsg>>]

-----------------------------------------------------------------------------
(* CodeExecutor: expression evaluation                                     *)

\* the characters whose presence keeps _evaluate_expression from trying a
\* numeric literal
OperatorChars == {" ", "+", "-", "*", "/", "%", "^", "<", ">", "=", "!", "&", "|"}

HasOperatorChar(s) == \E i \in 1..Len(s) : s[i] \in OperatorChars

\* the text of each operator name
OpText(op) ==
    CASE op = "||" -> <<"|", "|">>
      [] op = "&&" -> <<"&", "&">>
      [] op = "==" -> <<"=", "=">>
      [] op = "!=" -> <<"!", "=">>
      [] op = "<=" -> <<"<", "=">>
      [] op = ">=" -> <<">", "=">>
      [] OTHER     -> <<op>>

\* f' {op} '
Spaced(op) == <<" ">> \o OpText(op) \o <<" ">>

RelationalOps == <<"==", "!=", "<=", ">=", "<", ">">>

AdditiveOps == <<"+", "-">>

MultiplicativeOps == <<"*", "/", "%">>

\* the position in ops of the first operator found in expr, 0 when none is
FirstFound(expr, ops) ==
    LET hits == {i \in 1..Len(ops) : Contains(expr, Spaced(ops[i]))}
    IN  IF hits = {} THEN 0 ELSE Min(hits)

\* CodeExecutor._evaluate_expression: the value and what is printed
RECURSIVE EvaluateExpression(_, _)
EvaluateExpression(raw, vs) ==
    LET expr == Strip(raw)
        Bin(op, parts) ==
            LET l == EvaluateExpression(parts[1], vs)
                r == EvaluateExpression(parts[3], vs)
                a == ApplyOperator(op, l.v, r.v)
            IN  [v |-> a.v, err |-> l.err \o r.err \o a.err]
        fl  == PyFloat(expr)
        in  == PyInt(expr)
        rel == FirstFound(expr, RelationalOps)
        add == FirstFound(expr, AdditiveOps)
        mul == FirstFound(expr, MultiplicativeOps)
    IN  IF StartsWith(expr, <<"\"">>) /\ EndsWith(expr, <<"\"">>)
          THEN OpOk(StrV(expr))
        ELSE IF expr = <<"t", "r", "u", "e">> THEN OpOk(BoolV(TRUE))
        ELSE IF expr = <<"f", "a", "l", "s", "e">> THEN OpOk(BoolV(FALSE))
        ELSE IF HasChar(expr, ".") /\ ~HasOperatorChar(expr) /\ fl.ok
          THEN OpOk(FloatV(fl.n, fl.d))
        ELSE IF ~HasOperatorChar(expr) /\ ~HasChar(expr, ".") /\ in.ok
          THEN OpOk(IntV(in.n))
        ELSE IF expr \in DOMAIN vs THEN OpOk(vs[expr])
        ELSE IF StartsWith(expr, <<"!", " ">>)
          THEN LET o == EvaluateExpression(Strip(Slice(expr, 2, Len(expr))), vs)
               IN  [v |-> BoolV(~Truthy(o.v)), err |-> o.err]
        ELSE IF Contains(expr, Spaced("||"))
          THEN Bin("||", RPartition(expr, Spaced("||")))
        ELSE IF Contains(expr, Spaced("&&"))
          THEN Bin("&&", RPartition(expr, Spaced("&&")))
        ELSE IF rel # 0
          THEN Bin(RelationalOps[rel], RPartition(expr, Spaced(RelationalOps[rel])))
        ELSE IF add # 0
          THEN Bin(AdditiveOps[add], RPartition(expr, Spaced(AdditiveOps[add])))
        ELSE IF mul # 0
          THEN Bin(MultiplicativeOps[mul],
                   RPartition(expr, Spaced(MultiplicativeOps[mul])))
        ELSE IF Contains(expr, Spaced("^"))
          THEN Bin("^", Partition(expr, Spaced("^")))
        ELSE [v |-> IntV(0), err |-> <<CannotEvalMsg>>]

-----------------------------------------------------------------------------
(* CodeExecutor: the text shown for a value                                *)

\* str(x) for a float n/d whose denominator is a power of two: the exact
\* decimal expansion, which is also the shortest one that reads back
RECURSIVE Log2(_)
Log2(d) == IF d <= 1 THEN 0 ELSE 1 + Log2(d \div 2)

IsPow2(d) == d = Pow(2, Log2(d))

RECURSIVE ZeroPad(_, _)
ZeroPad(s, k) == IF Len(s) >= k THEN s ELSE ZeroPad(<<"0">> \o s, k)

FloatToStr(nn, dd) ==
    IF ~IsPow2(dd) THEN <<"f", "l", "o", "a", "t", "?">>
    ELSE LET k    == Log2(dd)
             a    == Abs(nn)
             ip   == a \div dd
             fr   == ((a % dd) * Pow(10, k)) \div dd
             sg   == IF nn < 0 THEN <<"-">> ELSE <<>>
         IN  sg \o NatToStr(ip) \o <<".">>
                \o (IF k = 0 THEN <<"0">> ELSE ZeroPad(NatToStr(fr), k))

\* str(value)
ValueToStr(v) ==
    CASE v.t = "int"   -> IntToStr(v.n)
      [] v.t = "bool"  -> IF v.n = 1 THEN <<"T", "r", "u", "e">>
                          ELSE <<"F", "a", "l", "s", "e">>
      [] v.t = "float" -> FloatToStr(v.n, v.d)
      [] v.t = "str"   -> v.s
      [] v.t = "None"  -> <<"N", "o", "n", "e">>
      [] OTHER         -> <<"?">>

-----------------------------------------------------------------------------
(* CodeExecutor: one instruction                                           *)

KwHALT == <<"H", "A", "L", "T">>

KwDECLARE == <<"D", "E", "C", "L", "A", "R", "E">>

KwREAD == <<"R", "E", "A", "D">>

KwWRITE == <<"W", "R", "I", "T", "E">>

KwGOTO == <<"G", "O", "T", "O">>

KwIF_FALSE == <<"I", "F", "_", "F", "A", "L", "S", "E">>

TyInt == <<"i", "n", "t">>

TyFloat == <<"f", "l", "o", "a", "t">>

TyBool == <<"b", "o", "o", "l">>

EmptyDict == [x \in {} |-> NoneV]

\* d[k] = v on a Python dict
DictSet(d, k, v) == [x \in (DOMAIN d) \cup {k} |-> IF x = k THEN v ELSE d[x]]

\* The effect of one handler on the interpreter: the bindings, the program
\* counter, the output log, what is printed to stderr, whether input() was
\* called, and whether an exception left the handler.
Effect(vs, p, out, err, consumed, raised) ==
    [variables |-> vs, pc |-> p, output |-> out, err |-> err,
     consumed |-> consumed, raised |-> raised]

\* CodeExecutor._execute_declare
ExecuteDeclare(instruction, vs, p, out) ==
    LET parts == Split(instruction)
    IN  IF Len(parts) >= 3
        THEN LET val == CASE parts[3] = TyInt   -> IntV(0)
                          [] parts[3] = TyFloat -> FloatV(0, 1)
                          [] parts[3] = TyBool  -> BoolV(FALSE)
                          [] OTHER              -> NoneV
             IN  Effect(DictSet(vs, parts[2], val), p, out, <<>>, FALSE, FALSE)
        ELSE Effect(vs, p, out, <<>>, FALSE, FALSE)

\* CodeExecutor._execute_read; line is what input() returns: [eof, s] with
\* eof = TRUE for EOFError.  float() raising ValueError is not caught here.
ExecuteRead(instruction, vs, p, out, line) ==
    LET parts == Split(instruction)
    IN  IF Len(parts) >= 2
        THEN LET name == parts[2]
             IN  IF line.eof
                 THEN Effect(DictSet(vs, name, IntV(0)), p, out,
                             <<ReadFailMsg>>, TRUE, FALSE)
                 ELSE IF HasChar(line.s, ".")
                      THEN LET AsFloat(f) ==
                                   IF f.ok
                                   THEN Effect(DictSet(vs, name, FloatV(f.n, f.d)), p, out,
                                               <<>>, TRUE, FALSE)
                                   ELSE Effect(vs, p, out, <<>>, TRUE, TRUE)
                           IN  AsFloat(PyFloat(line.s))
                      ELSE LET AsInt(i) ==
                                   Effect(DictSet(vs, name,
                                                  IF i.ok THEN IntV(i.n) ELSE StrV(line.s)),
                                          p, out, <<>>, TRUE, FALSE)
                           IN  AsInt(PyInt(line.s))
        ELSE Effect(vs, p, out, <<>>, FALSE, FALSE)

\* CodeExecutor._execute_write; re.match(r'WRITE\s+(.+)') then strip()
ExecuteWrite(instruction, vs, p, out) ==
    LET rest == Slice(instruction, Len(KwWRITE), Len(instruction))
    IN  IF Len(rest) >= 2 /\ IsSpace(rest[1])
        THEN LET Unquoted(v) ==
                     IF v.t = "str" /\ StartsWith(v.s, <<"\"">>) /\ EndsWith(v.s, <<"\"">>)
                     THEN StrV(Slice(v.s, 1, Len(v.s) - 1))
                     ELSE v
                 Log(e) == Effect(vs, p, Append(out, ValueToStr(Unquoted(e.v))), e.err,
                                  FALSE, FALSE)
             IN  Log(EvaluateExpression(Strip(rest), vs))
        ELSE Effect(vs, p, out, <<>>, FALSE, FALSE)

\* the jump shared by GOTO and IF_FALSE: pc = labels[label] - 1, or a diagnostic
JumpTo(label, lbls, vs, p, out, err) ==
    IF label \in DOMAIN lbls
    THEN Effect(vs, lbls[label] - 1, out, err, FALSE, FALSE)
    ELSE Effect(vs, p, out, err \o <<NoLabelMsg>>, FALSE, FALSE)

\* CodeExecutor._execute_goto
ExecuteGoto(instruction, lbls, vs, p, out) ==
    LET parts == Split(instruction)
    IN  IF Len(parts) >= 2
        THEN JumpTo(parts[2], lbls, vs, p, out, <<>>)
        ELSE Effect(vs, p, out, <<>>, FALSE, FALSE)

\* the number of blanks of r from position i (1-based) on
RECURSIVE SpaceRun(_, _)
SpaceRun(r, i) ==
    IF i <= Len(r) /\ IsSpace(r[i]) THEN 1 + SpaceRun(r, i + 1) ELSE 0

\* re.match(r'IF_FALSE\s+(.+?)\s+GOTO\s+(\S+)', instruction, re.DOTALL):
\* the first blanks are greedy, the condition is the shortest text that lets
\* the rest match, the label is the longest run of non-blanks
IfFalseMatch(instruction) ==
    LET r == Slice(instruction, Len(KwIF_FALSE), Len(instruction))
        GotoAt(b) ==   \* position of the label when r[b+1..] is \s+GOTO\s+\S+, else 0
            LET sp  == SpaceRun(r, b + 1)
                g   == b + sp
                sp2 == SpaceRun(r, g + 5)
            IN  IF sp >= 1 /\ g + 4 <= Len(r) /\ SubSeq(r, g + 1, g + 4) = KwGOTO
                   /\ sp2 >= 1 /\ g + 4 + sp2 < Len(r)
                THEN g + 5 + sp2 ELSE 0
        cands == {ab \in (1..SpaceRun(r, 1)) \X (1..Len(r)) :
                      ab[2] > ab[1] /\ GotoAt(ab[2]) # 0}
    IN  IF cands = {} THEN [ok |-> FALSE, condition |-> <<>>, label |-> <<>>]
        ELSE LET a == Max({ab[1] : ab \in cands})
                 b == Min({ab[2] : ab \in {x \in cands : x[1] = a}})
                 l == GotoAt(b)
             IN  [ok |-> TRUE, condition |-> SubSeq(r, a + 1, b),
                  label |-> FirstWord(SubSeq(r, l, Len(r)))]

\* _execute_if_false with the test inverted: it jumps when the condition is true
ExecuteIfFalseInverted(instruction, lbls, vs, p, out) ==
    LET Test(m) ==
            LET Branch(c) == IF Truthy(c.v)
                             THEN JumpTo(m.label, lbls, vs, p, out, c.err)
                             ELSE Effect(vs, p, out, c.err, FALSE, FALSE)
            IN  IF m.ok THEN Branch(EvaluateExpression(m.condition, vs))
                ELSE Effect(vs, p, out, <<>>, FALSE, FALSE)
    IN  Test(IfFalseMatch(instruction))

\* CodeExecutor._execute_if_false
ExecuteIfFalse(instruction, lbls, vs, p, out) ==
    LET Test(m) ==
            LET Branch(c) == IF ~Truthy(c.v)
                             THEN JumpTo(m.label, lbls, vs, p, out, c.err)
                             ELSE Effect(vs, p, out, c.err, FALSE, FALSE)
            IN  IF m.ok THEN Branch(EvaluateExpression(m.condition, vs))
                ELSE Effect(vs, p, out, <<>>, FALSE, FALSE)
    IN  Test(IfFalseMatch(instruction))

\* _execute_assignment leaving the destination alone when the evaluation
\* printed a diagnostic
ExecuteAssignmentSkipping(instruction, vs, p, out) ==
    LET Assign(parts) ==
            LET Bind(e) == IF e.err # <<>> THEN Effect(vs, p, out, e.err, FALSE, FALSE)
                           ELSE Effect(DictSet(vs, Strip(parts[1]), e.v), p, out, e.err,
                                       FALSE, FALSE)
            IN  IF Len(parts) = 2 THEN Bind(EvaluateExpression(Strip(parts[2]), vs))
                ELSE Effect(vs, p, out, <<>>, FALSE, FALSE)
    IN  Assign(SplitFirstEq(instruction))

\* CodeExecutor._execute_assignment
ExecuteAssignment(instruction, vs, p, out) ==
    LET Assign(parts) ==
            LET Bind(e) == Effect(DictSet(vs, Strip(parts[1]), e.v), p, out, e.err,
                                  FALSE, FALSE)
            IN  IF Len(parts) = 2 THEN Bind(EvaluateExpression(Strip(parts[2]), vs))
                ELSE Effect(vs, p, out, <<>>, FALSE, FALSE)
    IN  Assign(SplitFirstEq(instruction))

\* which handler _execute_instruction dispatches to
Handler(instruction) ==
    IF instruction = KwHALT THEN "HALT"
    ELSE IF StartsWith(instruction, KwDECLARE) THEN "DECLARE"
    ELSE IF StartsWith(instruction, KwREAD) THEN "READ"
    ELSE IF StartsWith(instruction, KwWRITE) THEN "WRITE"
    ELSE IF StartsWith(instruction, KwGOTO) THEN "GOTO"
    ELSE IF StartsWith(instruction, KwIF_FALSE) THEN "IF_FALSE"
    ELSE IF HasChar(instruction, "=") THEN "ASSIGN"
    ELSE "NONE"

\* CodeExecutor._execute_instruction: the effect, and halt = TRUE when it
\* returns False
ExecuteInstruction(instruction, lbls, vs, p, out, line) ==
    LET h == Handler(instruction)
        e == CASE h = "DECLARE"  -> ExecuteDeclare(instruction, vs, p, out)
               [] h = "READ"     -> ExecuteRead(instruction, vs, p, out, line)
               [] h = "WRITE"    -> ExecuteWrite(instruction, vs, p, out)
               [] h = "GOTO"     -> ExecuteGoto(instruction, lbls, vs, p, out)
               [] h = "IF_FALSE" -> ExecuteIfFalse(instruction, lbls, vs, p, out)
               [] h = "ASSIGN"   -> ExecuteAssignment(instruction, vs, p, out)
               [] OTHER          -> Effect(vs, p, out, <<>>, FALSE, FALSE)
    IN  [halt |-> h = "HALT", eff |-> e]

\* CodeExecutor._find_labels
FindLabels(ins) ==
    LET names == {Slice(ins[i], 0, Len(ins[i]) - 1) :
                    i \in {j \in 1..Len(ins) : EndsWith(ins[j], <<":">>)}}
    IN  [l \in names |->
           Max({i \in 1..Len(ins) : EndsWith(ins[i], <<":">>)
                                    /\ Slice(ins[i], 0, Len(ins[i]) - 1) = l}) - 1]

-----------------------------------------------------------------------------
(* The AST, in the shape the parser builds it                              *)
(* A node is [node_type, value, children]; value is the lexeme or operator *)
(* text (empty for structural nodes, whose value the generator never       *)
(* formats).                                                               *)

Node(nt, val, ch) == [node_type |-> nt, value |-> val, children |-> ch]

Leaf(nt, val) == Node(nt, val, <<>>)

\* parse_componente: the leaves
Id(name) == Leaf("id", name)

Numero(text) == Leaf("numero", text)

Bool(text) == Leaf("bool", text)

Cadena(text) == Leaf("cadena", text)

\* parse_componente: '!' componente
Not(c) == Node("expresion_logica", <<"!">>, <<c>>)

\* parse_expresion: left rel_op right
Relacional(op, l, r) == Node("expresion_relacional", OpText(op), <<l, r>>)

\* parse_expresion: left (&& | ||) right
Logica(op, l, r) == Node("expresion_logica", OpText(op), <<l, r>>)

\* parse_expresion_simple: left (+ | -) right
Simple(op, l, r) == Node("expresion_simple", OpText(op), <<l, r>>)

\* parse_termino: left (* | / | %) right
Termino(op, l, r) == Node("termino", OpText(op), <<l, r>>)

\* parse_factor: left ^ right
Factor(l, r) == Node("factor", <<"^">>, <<l, r>>)

\* parse_asignacion: id = (cadena | expresion) ;
Asignacion(name, rhs) == Node("asignacion", name, <<Id(name), rhs>>)

\* a block node is added only when its statement list is not empty
Block(nt, stmts) == IF stmts = <<>> THEN <<>> ELSE <<Node(nt, <<>>, stmts)>>

\* parse_seleccion: [if, expresion, then, then_block?, (else, else_block?)?]
Seleccion(cond, thenStmts, hasElse, elseStmts) ==
    Node("seleccion", <<>>,
         <<Leaf("if", <<"i", "f">>), cond, Leaf("then", <<"t", "h", "e", "n">>)>>
         \o Block("then_block", thenStmts)
         \o (IF hasElse
             THEN <<Leaf("else", <<"e", "l", "s", "e">>)>> \o Block("else_block", elseStmts)
             ELSE <<>>))

\* parse_iteracion: [while, condicion(expresion), cuerpo?]
Iteracion(cond, body) ==
    Node("iteracion", <<>>,
         <<Leaf("while", <<"w", "h", "i", "l", "e">>), Node("condicion", <<>>, <<cond>>)>>
         \o Block("cuerpo", body))

\* parse_repeticion: [do, cuerpo?, until, condicion(expresion)]
Repeticion(body, cond) ==
    Node("repeticion", <<>>,
         <<Leaf("do", <<"d", "o">>)>> \o Block("cuerpo", body)
         \o <<Leaf("until", <<"u", "n", "t", "i", "l">>), Node("condicion", <<>>, <<cond>>)>>)

\* parse_sent_in: cin >> id ;
SentIn(name) ==
    Node("sent_in", <<>>,
         <<Leaf("cin", <<"c", "i", "n">>), Leaf(">>", <<">", ">">>), Id(name)>>)

\* parse_sent_out: cout << (cadena | expresion) ;
SentOut(item) ==
    Node("sent_out", <<>>,
         <<Leaf("cout", <<"c", "o", "u", "t">>), Leaf("<<", <<"<", "<">>), item>>)

\* parse_declaracion_variable: tipo id ;
DeclaracionVariable(type, name) == Node("declaracion_variable", type, <<Id(name)>>)

\* parse_program / parse_lista_declaracion: main { (declaracion | sentencia)* }
Programa(items) ==
    Node("programa", <<>>,
         <<Leaf("main", <<"m", "a", "i", "n">>), Leaf("{", <<"{">>)>>
         \o Block("lista_declaracion", items)
         \o <<Leaf("}", <<"}">>)>>)

-----------------------------------------------------------------------------
(* IntermediateCodeGenerator                                               *)
(* The generator state threaded through the visit is [ins, tc, lc]: the   *)
(* instructions emitted so far, temp_counter and label_counter.  A visit   *)
(* returns the new state and res, the Optional[str] it returns.            *)

NoneRes == [some |-> FALSE, s |-> <<>>]

Some(x) == [some |-> TRUE, s |-> x]

\* `not res`: None and the empty string are both falsy
Falsy(res) == ~res.some \/ res.s = <<>>

\* f"{res}"
Fmt(res) == IF res.some THEN res.s ELSE <<"N", "o", "n", "e">>

GenState(ins, tc, lc) == [ins |-> ins, tc |-> tc, lc |-> lc]

\* IntermediateCodeGenerator.emit
Emit(st, line) == [st EXCEPT !.ins = Append(@, line)]

\* IntermediateCodeGenerator.new_temp
NewTemp(st) == [st |-> [st EXCEPT !.tc = @ + 1], name |-> <<"t">> \o NatToStr(st.tc)]

\* new_label without the increment of label_counter
NewLabelStuck(st) == [st |-> st, name |-> <<"L">> \o NatToStr(st.lc)]

\* IntermediateCodeGenerator.new_label
NewLabel(st) == [st |-> [st EXCEPT !.lc = @ + 1], name |-> <<"L">> \o NatToStr(st.lc)]

Sp == <<" ">>

\* the parts visit_seleccion extracts from the children.  then_block and
\* else_block are looked for only among the children whose type is if, then
\* or else, as the elif chain of the loop does.
SeleccionParts(children) ==
    LET kw    == {"if", "then", "else"}
        conds == {i \in 1..Len(children) : children[i].node_type \notin kw}
        thens == {i \in 1..Len(children) : children[i].node_type \in kw
                                           /\ children[i].node_type = "then_block"}
        elses == {i \in 1..Len(children) : children[i].node_type \in kw
                                           /\ children[i].node_type = "else_block"}
    IN  [cond       |-> IF conds = {} THEN <<>> ELSE <<children[Min(conds)]>>,
         then_block |-> IF thens = {} THEN <<>> ELSE <<children[Max(thens)]>>,
         else_block |-> IF elses = {} THEN <<>> ELSE <<children[Max(elses)]>>]

\* the children of the last child of the given type, <<>> when there is none
LastOfType(children, nt) ==
    LET hits == {i \in 1..Len(children) : children[i].node_type = nt}
    IN  IF hits = {} THEN <<>> ELSE <<children[Max(hits)]>>

\* y, evaluated after x
InOrder(x, y) == <<x, y>>[2]

RECURSIVE Visit(_, _)
RECURSIVE VisitAll(_, _)
RECURSIVE EmitSeleccion(_, _)

\* for child in children: self.visit(child).  The state after a child is
\* computed before the next child is visited, as Python does
\* (InOrder(x, y) is y, evaluated after x).
VisitAll(children, st) ==
    IF children = <<>> THEN st
    ELSE LET next == Visit(Head(children), st).st
         IN  InOrder(next, VisitAll(Tail(children), next))

\* the children of an optional block node
BlockChildren(blk) == IF blk = <<>> THEN <<>> ELSE blk[1].children

\* visit_seleccion from the point where cond_node, then_block and else_block
\* are known
EmitSeleccion(parts, st) ==
    IF parts.cond = <<>> THEN [st |-> st, res |-> NoneRes]
    ELSE LET c    == Visit(parts.cond[1], st)
             le   == NewLabel(c.st)
             ln   == NewLabel(le.st)
             s1   == Emit(ln.st, KwIF_FALSE \o Sp \o Fmt(c.res) \o Sp \o KwGOTO
                                 \o Sp \o le.name)
             s2   == VisitAll(BlockChildren(parts.then_block), s1)
             s3   == Emit(s2, KwGOTO \o Sp \o ln.name)
             s4   == Emit(s3, le.name \o <<":">>)
             s5   == VisitAll(BlockChildren(parts.else_block), s4)
         IN  [st |-> Emit(s5, ln.name \o <<":">>), res |-> NoneRes]

\* visit_iteracion
VisitIteracion(node, st) ==
    LET condicion == LastOfType(node.children, "condicion")
        cuerpo    == LastOfType(node.children, "cuerpo")
    IN  IF condicion = <<>> THEN [st |-> st, res |-> NoneRes]
        ELSE LET ls == NewLabel(st)
                 le == NewLabel(ls.st)
                 s1 == Emit(le.st, ls.name \o <<":">>)
                 s2 == IF condicion[1].children # <<>>
                       THEN LET c == Visit(condicion[1].children[1], s1)
                            IN  Emit(c.st, KwIF_FALSE \o Sp \o Fmt(c.res) \o Sp
                                           \o KwGOTO \o Sp \o le.name)
                       ELSE s1
                 s3 == VisitAll(BlockChildren(cuerpo), s2)
                 s4 == Emit(s3, KwGOTO \o Sp \o ls.name)
             IN  [st |-> Emit(s4, le.name \o <<":">>), res |-> NoneRes]

\* visit_repeticion without the closing test: the body is lowered once and
\* nothing jumps back to it
VisitRepeticionOnce(node, st) ==
    LET cuerpo == LastOfType(node.children, "cuerpo")
        ls == NewLabel(st)
        s1 == Emit(ls.st, ls.name \o <<":">>)
    IN  [st |-> VisitAll(BlockChildren(cuerpo), s1), res |-> NoneRes]

\* visit_repeticion
VisitRepeticion(node, st) ==
    LET cuerpo    == LastOfType(node.children, "cuerpo")
        condicion == LastOfType(node.children, "condicion")
        ls == NewLabel(st)
        s1 == Emit(ls.st, ls.name \o <<":">>)
        s2 == VisitAll(BlockChildren(cuerpo), s1)
        s3 == IF condicion # <<>> /\ condicion[1].children # <<>>
              THEN LET c == Visit(condicion[1].children[1], s2)
                   IN  Emit(c.st, KwIF_FALSE \o Sp \o Fmt(c.res) \o Sp
                                  \o KwGOTO \o Sp \o ls.name)
              ELSE s2
    IN  [st |-> s3, res |-> NoneRes]

\* visit_declaracion_variable
RECURSIVE EmitDeclares(_, _, _)
EmitDeclares(children, type, st) ==
    IF children = <<>> THEN st
    ELSE EmitDeclares(Tail(children), type,
                      IF Head(children).node_type = "id"
                      THEN Emit(st, KwDECLARE \o Sp \o Head(children).value \o Sp \o type)
                      ELSE st)

\* visit_sent_in
RECURSIVE EmitReads(_, _)
EmitReads(children, st) ==
    IF children = <<>> THEN st
    ELSE EmitReads(Tail(children),
                   IF Head(children).node_type = "id"
                   THEN Emit(st, KwREAD \o Sp \o Head(children).value)
                   ELSE st)

\* visit_sent_out
RECURSIVE EmitWrites(_, _)
EmitWrites(children, st) ==
    IF children = <<>> THEN st
    ELSE LET child == Head(children)
             nt    == child.node_type
         IN  EmitWrites(Tail(children),
                 IF nt = "cadena" THEN Emit(st, KwWRITE \o Sp \o child.value)
                 ELSE IF nt \notin {"cout", "<<"}
                      THEN LET r == Visit(child, st)
                           IN  IF Falsy(r.res) THEN r.st
                               ELSE Emit(r.st, KwWRITE \o Sp \o r.res.s)
                      ELSE st)

\* visit_asignacion
VisitAsignacion(node, st) ==
    IF Len(node.children) < 2 THEN [st |-> st, res |-> NoneRes]
    ELSE LET var_name == node.children[1].value
             rhs      == node.children[2]
         IN  IF rhs.node_type = "cadena"
             THEN [st |-> Emit(st, var_name \o Sp \o <<"=">> \o Sp \o rhs.value),
                   res |-> NoneRes]
             ELSE LET r == Visit(rhs, st)
                  IN  [st |-> IF Falsy(r.res) THEN r.st
                              ELSE Emit(r.st, var_name \o Sp \o <<"=">> \o Sp \o r.res.s),
                       res |-> NoneRes]

\* visit_expresion_simple, visit_termino, visit_factor,
\* visit_expresion_relacional and the binary case of visit_expresion_logica
VisitBinary(node, st) ==
    IF Len(node.children) < 2 THEN [st |-> st, res |-> NoneRes]
    ELSE LET l == Visit(node.children[1], st)
             r == Visit(node.children[2], l.st)
         IN  IF Falsy(l.res) \/ Falsy(r.res) THEN [st |-> r.st, res |-> NoneRes]
             ELSE LET t == NewTemp(r.st)
                  IN  [st  |-> Emit(t.st, t.name \o Sp \o <<"=">> \o Sp \o l.res.s \o Sp
                                          \o node.value \o Sp \o r.res.s),
                       res |-> Some(t.name)]

\* visit_expresion_logica
VisitExpresionLogica(node, st) ==
    IF node.value = <<"!">>
    THEN IF Len(node.children) < 1 THEN [st |-> st, res |-> NoneRes]
         ELSE LET o == Visit(node.children[1], st)
              IN  IF Falsy(o.res) THEN [st |-> o.st, res |-> NoneRes]
                  ELSE LET t == NewTemp(o.st)
                       IN  [st  |-> Emit(t.st, t.name \o Sp \o <<"=">> \o Sp \o <<"!">>
                                               \o Sp \o o.res.s),
                            res |-> Some(t.name)]
    ELSE VisitBinary(node, st)

\* IntermediateCodeGenerator.visit: the dispatch on node_type
Visit(node, st) ==
    LET nt == node.node_type
    IN  CASE nt \in {"programa", "lista_declaracion", "lista_sentencias",
                     "then_block", "else_block", "cuerpo"} ->
               [st |-> VisitAll(node.children, st), res |-> NoneRes]
          [] nt = "declaracion_variable" ->
               [st |-> EmitDeclares(node.children, node.value, st), res |-> NoneRes]
          [] nt = "asignacion" -> VisitAsignacion(node, st)
          [] nt = "seleccion"  -> EmitSeleccion(SeleccionParts(node.children), st)
          [] nt = "iteracion"  -> VisitIteracion(node, st)
          [] nt = "repeticion" -> VisitRepeticion(node, st)
          [] nt = "sent_in"    -> [st |-> EmitReads(node.children, st), res |-> NoneRes]
          [] nt = "sent_out"   -> [st |-> EmitWrites(node.children, st), res |-> NoneRes]
          [] nt \in {"expresion_simple", "termino", "factor", "expresion_relacional"} ->
               VisitBinary(node, st)
          [] nt = "expresion_logica" -> VisitExpresionLogica(node, st)
          [] nt \in {"id", "numero", "bool", "cadena"} ->
               [st |-> st, res |-> Some(node.value)]
          [] nt = "main" -> [st |-> st, res |-> NoneRes]
          [] nt = "condicion" ->
               IF node.children # <<>> THEN Visit(node.children[1], st)
               ELSE [st |-> st, res |-> NoneRes]
          [] OTHER -> [st |-> VisitAll(node.children, st), res |-> NoneRes]

CommentInicio ==
    <<"#", " ", "I", "n", "i", "c", "i", "o", " ", "d", "e", "l", " ",
      "P", "r", "o", "g", "r", "a", "m", "a">>

CommentFin ==
    <<"#", " ", "F", "i", "n", " ", "d", "e", "l", " ",
      "P", "r", "o", "g", "r", "a", "m", "a">>

\* IntermediateCodeGenerator.generate on a fresh generator: the final
\* [ins, tc, lc]
GenerateFrom(tree) ==
    LET s1 == Emit(GenState(<<>>, 0, 0), CommentInicio)
        s2 == Visit(tree, s1).st
    IN  Emit(Emit(s2, CommentFin), KwHALT)

-----------------------------------------------------------------------------
(* SemanticAnalyzer: compile-time arithmetic                               *)

DivZeroStaticMsg == "Division por cero en tiempo de compilacion"

ModZeroStaticMsg == "Division por cero (modulo) en tiempo de compilacion"

ModFloatMsg == "Operador '%' no se puede aplicar a 'float'"

ArithErrorMsg == "Error en operacion aritmetica"

\* float(x) on a number
ToFloat(x) == FloatV(x.n, x.d)

\* SemanticAnalyzer._calculate_arithmetic: the folded value (NoneV when
\* there is none) and the diagnostics added
CalculateArithmetic(op, left_val, right_val, result_type) ==
    IF left_val = NoneV \/ right_val = NoneV THEN [v |-> NoneV, err |-> <<>>]
    ELSE LET l == IF result_type = "float" THEN ToFloat(left_val) ELSE left_val
             r == IF result_type = "float" THEN ToFloat(right_val) ELSE right_val
         IN  CASE op \in {"+", "-", "*"} -> [v |-> NumArith(op, l, r), err |-> <<>>]
               [] op = "/" ->
                    IF r.n = 0 THEN [v |-> NoneV, err |-> <<DivZeroStaticMsg>>]
                    ELSE IF result_type = "float"
                         THEN [v |-> FloatV(l.n * r.d, l.d * r.n), err |-> <<>>]
                         ELSE [v |-> IntV(FloorDiv(l.n, r.n)), err |-> <<>>]
               [] op = "^" ->
                    LET p == NumPow(l, r)
                    IN  IF p.err THEN [v |-> NoneV, err |-> <<ArithErrorMsg>>]
                        ELSE [v |-> p.v, err |-> <<>>]
               [] op = "%" ->
                    IF result_type = "float" THEN [v |-> NoneV, err |-> <<ModFloatMsg>>]
                    ELSE IF r.n = 0 THEN [v |-> NoneV, err |-> <<ModZeroStaticMsg>>]
                    ELSE [v |-> IntV(PyMod(l.n, r.n)), err |-> <<>>]
               [] OTHER -> [v |-> NoneV, err |-> <<>>]

-----------------------------------------------------------------------------
(* The programs and input lines of the model                               *)

\* the most lines standard input holds before it ends
MaxLines == 2

\* the largest operand of the arithmetic checked in isolation
MaxOperand == 7

N_i == <<"i">>

N_j == <<"j">>

N_n == <<"n">>

N_a == <<"a">>

N_b == <<"b">>

N_c == <<"c">>

N_t0 == <<"t", "0">>

Num(k) == Numero(NatToStr(k))

T_true == Bool(<<"t", "r", "u", "e">>)

Str_pos == Cadena(<<"\"", "p", "o", "s", "\"">>)

Str_neg == Cadena(<<"\"", "n", "e", "g", "\"">>)

Str_go == Cadena(<<"\"", "g", "o", "\"">>)

\* i = i + 1;
Incr(name) == Asignacion(name, Simple("+", Id(name), Num(1)))

\* main { int a; float b; a = 7; b = a / 2; cout << b; }
ProgArith ==
    Programa(<<DeclaracionVariable(TyInt, N_a), DeclaracionVariable(TyFloat, N_b),
               Asignacion(N_a, Num(7)),
               Asignacion(N_b, Termino("/", Id(N_a), Num(2))),
               SentOut(Id(N_b))>>)

\* main { int n; cin >> n; if n > 0 then cout << "pos"; else cout << "neg"; end }
ProgCond ==
    Programa(<<DeclaracionVariable(TyInt, N_n), SentIn(N_n),
               Seleccion(Relacional(">", Id(N_n), Num(0)),
                         <<SentOut(Str_pos)>>, TRUE, <<SentOut(Str_neg)>>)>>)

\* main { int i; i = 0; while i < 3 cout << i; i = i + 1; end }
ProgWhile ==
    Programa(<<DeclaracionVariable(TyInt, N_i), Asignacion(N_i, Num(0)),
               Iteracion(Relacional("<", Id(N_i), Num(3)),
                         <<SentOut(Id(N_i)), Incr(N_i)>>)>>)

\* main { int i; i = 0; do cout << i; i = i + 1; until i == 2; }
ProgDo ==
    Programa(<<DeclaracionVariable(TyInt, N_i), Asignacion(N_i, Num(0)),
               Repeticion(<<SentOut(Id(N_i)), Incr(N_i)>>,
                          Relacional("==", Id(N_i), Num(2)))>>)

\* main { int i; int j; i = 0;
\*        while i < 2
\*          j = 0;
\*          do if i == j then cout << i; end j = j + 1; until j >= 2;
\*          while j > i j = j - 1; end
\*          i = i + 1;
\*        end
\*        if i > 1 then else end }
ProgNested ==
    Programa(<<DeclaracionVariable(TyInt, N_i), DeclaracionVariable(TyInt, N_j),
               Asignacion(N_i, Num(0)),
               Iteracion(Relacional("<", Id(N_i), Num(2)),
                   <<Asignacion(N_j, Num(0)),
                     Repeticion(<<Seleccion(Relacional("==", Id(N_i), Id(N_j)),
                                            <<SentOut(Id(N_i))>>, FALSE, <<>>),
                                  Incr(N_j)>>,
                                Relacional(">=", Id(N_j), Num(2))),
                     Iteracion(Relacional(">", Id(N_j), Id(N_i)),
                               <<Asignacion(N_j, Simple("-", Id(N_j), Num(1)))>>),
                     Incr(N_i)>>),
               Seleccion(Relacional(">", Id(N_i), Num(1)), <<>>, TRUE, <<>>)>>)

\* main { int n; do cin >> n; cout << n; until n == 0; }
ProgReadLoop ==
    Programa(<<DeclaracionVariable(TyInt, N_n),
               Repeticion(<<SentIn(N_n), SentOut(Id(N_n))>>,
                          Relacional("==", Id(N_n), Num(0)))>>)

\* main { int a; int b; int c; cin >> b; a = 12 / b; c = 12 % b; cout << a; cout << c; }
ProgDiv ==
    Programa(<<DeclaracionVariable(TyInt, N_a), DeclaracionVariable(TyInt, N_b),
               DeclaracionVariable(TyInt, N_c), SentIn(N_b),
               Asignacion(N_a, Termino("/", Num(12), Id(N_b))),
               Asignacion(N_c, Termino("%", Num(12), Id(N_b))),
               SentOut(Id(N_a)), SentOut(Id(N_c))>>)

\* main { int a; int b; a = 0 - 7; b = a / 2; cout << b; b = a % 2; cout << b; }
ProgNeg ==
    Programa(<<DeclaracionVariable(TyInt, N_a), DeclaracionVariable(TyInt, N_b),
               Asignacion(N_a, Simple("-", Num(0), Num(7))),
               Asignacion(N_b, Termino("/", Id(N_a), Num(2))),
               SentOut(Id(N_b)),
               Asignacion(N_b, Termino("%", Id(N_a), Num(2))),
               SentOut(Id(N_b))>>)

\* main { int t0; int a; t0 = 1; a = t0 + 1; cout << a; }
ProgTemp ==
    Programa(<<DeclaracionVariable(TyInt, N_t0), DeclaracionVariable(TyInt, N_a),
               Asignacion(N_t0, Num(1)),
               Asignacion(N_a, Simple("+", Id(N_t0), Num(1))),
               SentOut(Id(N_a))>>)

\* main { bool b; int a; a = 2 ^ 3 * 2 + 1; b = !(a > 16) && true || a != 17; cout << b; }
ProgExpr ==
    Programa(<<DeclaracionVariable(TyBool, N_b), DeclaracionVariable(TyInt, N_a),
               Asignacion(N_a, Simple("+", Termino("*", Factor(Num(2), Num(3)), Num(2)),
                                      Num(1))),
               Asignacion(N_b, Logica("&&", Not(Relacional(">", Id(N_a), Num(16))),
                                      Logica("||", T_true,
                                             Relacional("!=", Id(N_a), Num(17))))),
               SentOut(Id(N_b))>>)

\* main { int i; cout << "go"; i = 0; while true i = i + 1; end }
ProgForever ==
    Programa(<<DeclaracionVariable(TyInt, N_i), SentOut(Str_go),
               Asignacion(N_i, Num(0)),
               Iteracion(T_true, <<Incr(N_i)>>)>>)

\* the programs whose runs end by themselves
Programs ==
    {ProgArith, ProgCond, ProgWhile, ProgDo, ProgNested, ProgReadLoop, ProgDiv,
     ProgNeg, ProgTemp, ProgExpr}

\* main { int i; int j; i = 0; while i < 16665 i = i + 1; end }: its HALT is
\* the instruction of the iteration that uses up the budget
ProgBoundary ==
    Programa(<<DeclaracionVariable(TyInt, N_i), DeclaracionVariable(TyInt, N_j),
               Asignacion(N_i, Num(0)),
               Iteracion(Relacional("<", Id(N_i), Num(16665)), <<Incr(N_i)>>)>>)

\* the programs run against the iteration budget
BudgetPrograms == {ProgForever, ProgWhile, ProgBoundary}

\* what input() can return: a line, or EOFError
Line(text) == [eof |-> FALSE, s |-> text]

EOFLine == [eof |-> TRUE, s |-> <<>>]

InputLines ==
    {Line(<<"4">>), Line(<<"0">>), Line(<<"-", "2">>), Line(<<"1", ".", "5">>),
     Line(<<"a", ".", "b">>), Line(<<"a", "b", "c">>)}

-----------------------------------------------------------------------------
(* The pipeline: generate, load, execute, and execute once more            *)

\* max_iterations of CodeExecutor.execute
max_iterations == 100000

NoArith == [op |-> "", a |-> 0, b |-> 0, done |-> FALSE,
            interp |-> NoneV, folded |-> NoneV]

NoPrev == [output |-> <<>>, variables |-> EmptyDict, pc |-> 0, stderr |-> <<>>]

\* LexicalAnalyzer.__init__ and SemanticAnalyzer.__init__, with no source
\* text and no AST given yet
FrontIdle ==
    /\ code = <<>>
    /\ position = 0
    /\ line_num = 1
    /\ line_start = 0
    /\ tokens = <<>>
    /\ lex_errors = <<>>
    /\ symbol_table = EmptyDict
    /\ cross_reference_table = EmptyDict
    /\ current_address = 1
    /\ errors = <<>>
    /\ pending = <<>>
    /\ ParserIdle

InitWith(programs) ==
    /\ phase = "ast"
    /\ ast \in programs
    /\ instructions = <<>>
    /\ temp_counter = 0
    /\ label_counter = 0
    /\ labels = EmptyDict
    /\ pc = 0
    /\ iteration_count = 0
    /\ variables = EmptyDict
    /\ output = <<>>
    /\ stderr = <<>>
    /\ stdin = <<>>
    /\ rpos = 0
    /\ run = 1
    /\ prev = NoPrev
    /\ arith = NoArith
    /\ FrontIdle

Init == InitWith(Programs)

InitBudget == InitWith(BudgetPrograms)

\* IntermediateCodeGenerator.generate
Generate ==
    /\ phase = "ast"
    /\ LET g == GenerateFrom(ast)
       IN  /\ instructions' = g.ins
           /\ temp_counter' = g.tc
           /\ label_counter' = g.lc
    /\ phase' = "tac"
    /\ UNCHANGED <<ast, labels, pc, iteration_count, variables, output, stderr,
                   stdin, rpos, run, prev, arith, front>>

\* the lines of the file display_results wrote, as load_intermediate_code
\* keeps them: stripped, blank lines dropped
RECURSIVE StrippedLines(_)
StrippedLines(ins) ==
    IF ins = <<>> THEN <<>>
    ELSE (IF Strip(Head(ins)) = <<>> THEN <<>> ELSE <<Strip(Head(ins))>>)
         \o StrippedLines(Tail(ins))

\* CodeExecutor.__init__ and load_intermediate_code
LoadIntermediateCode ==
    /\ phase = "tac"
    /\ instructions' = StrippedLines(instructions)
    /\ labels' = FindLabels(StrippedLines(instructions))
    /\ pc' = 0
    /\ variables' = EmptyDict
    /\ output' = <<>>
    /\ phase' = "loaded"
    /\ UNCHANGED <<ast, temp_counter, label_counter, iteration_count, stderr,
                   stdin, rpos, run, prev, arith, front>>

\* CodeExecutor.execute up to the loop
ExecuteBegin ==
    /\ phase = "loaded"
    /\ pc' = 0
    /\ iteration_count' = 0
    /\ phase' = "running"
    /\ UNCHANGED <<ast, instructions, temp_counter, label_counter, labels,
                   variables, output, stderr, stdin, rpos, run, prev, arith, front>>

\* the loop condition without the iteration budget
LoopConditionUnbudgeted == pc < Len(instructions)

\* the condition of the while loop of execute
LoopCondition == pc < Len(instructions) /\ iteration_count < max_iterations

\* what the next input() may return: the line already returned at this
\* position to an earlier run, else EOF once the input has ended or holds
\* MaxLines lines, else any line or EOF
NextInputs ==
    IF rpos < Len(stdin) THEN {stdin[rpos + 1]}
    ELSE IF (stdin # <<>> /\ stdin[Len(stdin)].eof) \/ Len(stdin) >= MaxLines
         THEN {EOFLine}
         ELSE InputLines \cup {EOFLine}

\* the instruction the loop fetches
Fetched == instructions[pc + 1]

\* comments and labels are skipped by the loop itself
IsSkipped(instruction) ==
    StartsWith(instruction, <<"#">>) \/ EndsWith(instruction, <<":">>)

\* one iteration of the while loop of execute
ExecuteIteration ==
    /\ phase = "running"
    /\ LoopCondition
    /\ iteration_count' = iteration_count + 1
    /\ IF IsSkipped(Fetched)
       THEN /\ pc' = pc + 1
            /\ UNCHANGED <<phase, variables, output, stderr, stdin, rpos>>
       ELSE \E line \in (IF Handler(Fetched) = "READ" THEN NextInputs ELSE {EOFLine}) :
              \E r \in {ExecuteInstruction(Fetched, labels, variables, pc, output, line)} :
                  /\ variables' = r.eff.variables
                  /\ output' = r.eff.output
                  /\ stdin' = IF r.eff.consumed /\ rpos >= Len(stdin)
                              THEN Append(stdin, line) ELSE stdin
                  /\ rpos' = IF r.eff.consumed THEN rpos + 1 ELSE rpos
                  /\ stderr' = IF r.eff.raised THEN stderr \o r.eff.err \o <<RaisedMsg>>
                               ELSE stderr \o r.eff.err
                  /\ phase' = IF r.eff.raised THEN "done"
                              ELSE IF r.halt THEN "break" ELSE "running"
                  /\ pc' = IF r.eff.raised \/ r.halt THEN pc ELSE r.eff.pc + 1
    /\ UNCHANGED <<ast, instructions, temp_counter, label_counter, labels, run,
                   prev, arith, front>>

\* execute after the loop: the warning when the count reached the budget
ExecuteExit ==
    /\ phase = "break" \/ (phase = "running" /\ ~LoopCondition)
    /\ stderr' = IF iteration_count >= max_iterations
                 THEN Append(stderr, LimitMsg) ELSE stderr
    /\ phase' = "done"
    /\ UNCHANGED <<ast, instructions, temp_counter, label_counter, labels, pc,
                   iteration_count, variables, output, stdin, rpos, run, prev, arith, front>>

\* the second run on an executor that keeps the output log of the first
RerunKeepingOutput ==
    /\ phase = "done"
    /\ run = 1
    /\ prev' = [output |-> output, variables |-> variables, pc |-> pc,
                stderr |-> stderr]
    /\ run' = 2
    /\ labels' = FindLabels(instructions)
    /\ pc' = 0
    /\ variables' = EmptyDict
    /\ stderr' = <<>>
    /\ rpos' = 0
    /\ phase' = "loaded"
    /\ UNCHANGED <<ast, instructions, temp_counter, label_counter,
                   iteration_count, stdin, arith, output, front>>

\* a second, fresh CodeExecutor is given the same file and the same input
Rerun ==
    /\ phase = "done"
    /\ run = 1
    /\ prev' = [output |-> output, variables |-> variables, pc |-> pc,
                stderr |-> stderr]
    /\ run' = 2
    /\ labels' = FindLabels(instructions)
    /\ pc' = 0
    /\ variables' = EmptyDict
    /\ output' = <<>>
    /\ stderr' = <<>>
    /\ rpos' = 0
    /\ phase' = "loaded"
    /\ UNCHANGED <<ast, instructions, temp_counter, label_counter,
                   iteration_count, stdin, arith, front>>

Next ==
    \/ Generate
    \/ LoadIntermediateCode
    \/ ExecuteBegin
    \/ ExecuteIteration
    \/ ExecuteExit
    \/ Rerun

Spec == Init /\ [][Next]_vars

SpecBudget == InitBudget /\ [][Next]_vars

\* identifiers that begin with the text of a TAC keyword, and one that does not
KeywordNames ==
    {<<"R", "E", "A", "D", "Y">>,
     <<"W", "R", "I", "T", "E", "R">>,
     <<"G", "O", "T", "O", "x">>,
     <<"D", "E", "C", "L", "A", "R", "E", "d">>,
     <<"I", "F", "_", "F", "A", "L", "S", "E", "x">>,
     <<"x">>}

\* main { int n; n = 5; n = n + 1; cout << n; } for each of the names
NamePrograms ==
    {Programa(<<DeclaracionVariable(TyInt, n), Asignacion(n, Num(5)), Incr(n),
                SentOut(Id(n))>>) : n \in KeywordNames}

InitNames == InitWith(NamePrograms)

SpecNames == InitNames /\ [][Next]_vars

-----------------------------------------------------------------------------
(* The two integer divisions, applied to every pair of small operands      *)

InitArith ==
    /\ phase = "arith"
    /\ ast = Programa(<<>>)
    /\ instructions = <<>>
    /\ temp_counter = 0
    /\ label_counter = 0
    /\ labels = EmptyDict
    /\ pc = 0
    /\ iteration_count = 0
    /\ variables = EmptyDict
    /\ output = <<>>
    /\ stderr = <<>>
    /\ stdin = <<>>
    /\ rpos = 0
    /\ run = 1
    /\ prev = NoPrev
    /\ \E op \in {"/", "%"}, a, b \in (0 - MaxOperand)..MaxOperand :
           arith = [NoArith EXCEPT !.op = op, !.a = a, !.b = b]
    /\ FrontIdle

\* the interpreter's operator and the semantic stage's folding on a, b
ApplyBoth ==
    /\ phase = "arith"
    /\ ~arith.done
    /\ arith' = [arith EXCEPT
                   !.done = TRUE,
                   !.interp = ApplyOperator(arith.op, IntV(arith.a), IntV(arith.b)).v,
                   !.folded = CalculateArithmetic(arith.op, IntV(arith.a),
                                                  IntV(arith.b), "int").v]
    /\ UNCHANGED <<phase, ast, instructions, temp_counter, label_counter, labels,
                   pc, iteration_count, variables, output, stderr, stdin, rpos,
                   run, prev, front>>

NextArith == ApplyBoth

SpecArith == InitArith /\ [][NextArith]_vars

-----------------------------------------------------------------------------
(* LexicalAnalyzer                                                         *)
(* Each pattern of token_specs is an operator giving the length of its     *)
(* match at the 1-based index i of the text, 0 when it does not match      *)
(* there.  No pattern matches the empty string.                            *)

\* [a-zA-Z_]
Letters ==
    {"a", "b", "c", "d", "e", "f", "g", "h", "i", "j", "k", "l", "m", "n", "o", "p", "q", "r", "s", "t", "u", "v", "w", "x", "y", "z",
     "A", "B", "C", "D", "E", "F", "G", "H", "I", "J", "K", "L", "M", "N", "O", "P", "Q", "R", "S", "T", "U", "V", "W", "X", "Y", "Z", "_"}

\* \w
IsWord(c) == c \in Letters \/ IsDigit(c)

\* the number of characters from index i on that satisfy a greedy class
RECURSIVE RunLen(_, _, _)
RunLen(s, i, cls) ==
    IF i > Len(s) THEN 0
    ELSE LET c == s[i]
             ok == CASE cls = "d" -> IsDigit(c)
                     [] cls = "w" -> IsWord(c)
                     [] OTHER     -> c = " " \/ c = "\t" \/ c = "\r"
         IN  IF ok THEN 1 + RunLen(s, i + 1, cls) ELSE 0

\* the text p stands at index i of s
At(s, i, p) == i + Len(p) - 1 <= Len(s) /\ SubSeq(s, i, i + Len(p) - 1) = p

\* the first alternative of a group of literal alternatives that stands at i
FirstLiteral(s, i, alts) ==
    LET hits == {k \in 1..Len(alts) : At(s, i, alts[k])}
    IN  IF hits = {} THEN 0 ELSE Len(alts[CHOOSE k \in hits : \A h \in hits : k <= h])

\* ([^"\\]|\\.)*" from index i on: the index of the closing quote, 0 if the
\* repetition cannot be followed by one
RECURSIVE StringClose(_, _)
StringClose(s, i) ==
    IF i > Len(s) THEN 0
    ELSE IF s[i] = "\"" THEN i
    ELSE IF s[i] = "\\"
         THEN IF i + 1 <= Len(s) /\ s[i + 1] # "\n" THEN StringClose(s, i + 2) ELSE 0
    ELSE StringClose(s, i + 1)

\* STRING: "([^"\\]|\\.)*"
MatchString(s, i) ==
    IF s[i] # "\"" THEN 0
    ELSE LET close == StringClose(s, i + 1)
         IN  IF close = 0 THEN 0 ELSE close - i + 1

\* CHAR: '([^'\\]|\\.)'
MatchChar(s, i) ==
    IF s[i] # "'" \/ i + 2 > Len(s) THEN 0
    ELSE IF s[i + 1] = "\\"
         THEN IF i + 3 <= Len(s) /\ s[i + 2] # "\n" /\ s[i + 3] = "'" THEN 4 ELSE 0
    ELSE IF s[i + 1] # "'" /\ s[i + 2] = "'" THEN 3 ELSE 0

\* FLOAT: \d+\.\d+([eE][+-]?\d+)?
MatchFloat(s, i) ==
    LET d1 == RunLen(s, i, "d")
        d2 == RunLen(s, i + d1 + 1, "d")
        e  == i + d1 + 1 + d2
        sg == IF e + 1 <= Len(s) /\ s[e + 1] \in {"+", "-"} THEN 1 ELSE 0
        d3 == RunLen(s, e + 1 + sg, "d")
    IN  IF d1 = 0 \/ ~At(s, i + d1, <<".">>) \/ d2 = 0 THEN 0
        ELSE IF e <= Len(s) /\ s[e] \in {"e", "E"} /\ d3 > 0
             THEN d1 + 1 + d2 + 1 + sg + d3
             ELSE d1 + 1 + d2

\* PARTIAL_FLOAT that ends after the dot
MatchPartialFloatPrefix(s, i) ==
    LET d1 == RunLen(s, i, "d")
    IN  IF d1 = 0 \/ ~At(s, i + d1, <<".">>) THEN 0
        ELSE d1 + 1

\* PARTIAL_FLOAT: \d+\.([a-zA-Z_]|\d)*
MatchPartialFloat(s, i) ==
    LET d1 == RunLen(s, i, "d")
    IN  IF d1 = 0 \/ ~At(s, i + d1, <<".">>) THEN 0
        ELSE d1 + 1 + RunLen(s, i + d1 + 1, "w")

\* the alternatives of the KEYWORD pattern
Keywords ==
    <<<<"i", "f">>,
     <<"e", "l", "s", "e">>,
     <<"e", "n", "d">>,
     <<"d", "o">>,
     <<"w", "h", "i", "l", "e">>,
     <<"s", "w", "i", "t", "c", "h">>,
     <<"c", "a", "s", "e">>,
     <<"i", "n", "t">>,
     <<"f", "l", "o", "a", "t">>,
     <<"m", "a", "i", "n">>,
     <<"c", "i", "n">>,
     <<"c", "o", "u", "t">>,
     <<"f", "o", "r">>,
     <<"r", "e", "t", "u", "r", "n">>,
     <<"c", "h", "a", "r">>,
     <<"b", "o", "o", "l">>,
     <<"r", "e", "a", "l">>,
     <<"t", "h", "e", "n">>,
     <<"u", "n", "t", "i", "l">>>>

\* \b at index i: exactly one of the characters before and at i is a \w
Boundary(s, i) ==
    (i > 1 /\ IsWord(s[i - 1])) # (i <= Len(s) /\ IsWord(s[i]))

\* KEYWORD: \b(if|else|...)\b
MatchKeyword(s, i) ==
    LET hits == {k \in 1..Len(Keywords) :
                    At(s, i, Keywords[k]) /\ Boundary(s, i + Len(Keywords[k]))}
    IN  IF ~Boundary(s, i) \/ hits = {} THEN 0
        ELSE Len(Keywords[CHOOSE k \in hits : \A h \in hits : k <= h])

\* IDENTIFIER: [a-zA-Z_][a-zA-Z0-9_]*
MatchIdentifier(s, i) == IF s[i] \in Letters THEN RunLen(s, i, "w") ELSE 0

\* token_specs: the patterns in the order of the alternation
token_specs(s, i) ==
    <<[type |-> "STRING",        len |-> MatchString(s, i)],
      [type |-> "CHAR",          len |-> MatchChar(s, i)],
      [type |-> "FLOAT",         len |-> MatchFloat(s, i)],
      [type |-> "PARTIAL_FLOAT", len |-> MatchPartialFloat(s, i)],
      [type |-> "INT",           len |-> RunLen(s, i, "d")],
      [type |-> "KEYWORD",       len |-> MatchKeyword(s, i)],
      [type |-> "LOGIC_OP",
       len |-> FirstLiteral(s, i, <<<<"&", "&">>, <<"|", "|">>, <<"!">>>>)],
      [type |-> "INCREMENT",     len |-> FirstLiteral(s, i, <<<<"+", "+">>>>)],
      [type |-> "DECREMENT",     len |-> FirstLiteral(s, i, <<<<"-", "-">>>>)],
      [type |-> "REL_OP",
       len |-> FirstLiteral(s, i, <<<<"<", "=">>, <<">", "=">>, <<"=", "=">>,
                                    <<"!", "=">>, <<"<">>, <<">">>>>)],
      [type |-> "ASSIGN_OP",     len |-> FirstLiteral(s, i, <<<<"=">>>>)],
      [type |-> "ARITH_OP",
       len |-> IF s[i] \in {"+", "-", "*", "/", "%", "^"} THEN 1 ELSE 0],
      [type |-> "DELIMITER",
       len |-> IF s[i] \in {"(", ")", "[", "]", "{", "}", ",", ":", ";"} THEN 1 ELSE 0],
      [type |-> "IDENTIFIER",    len |-> MatchIdentifier(s, i)],
      [type |-> "NEWLINE",       len |-> IF s[i] = "\n" THEN 1 ELSE 0],
      [type |-> "WHITESPACE",    len |-> RunLen(s, i, "s")],
      [type |-> "MISMATCH",      len |-> IF s[i] # "\n" THEN 1 ELSE 0]>>

\* self.regex at index i: the first pattern of the alternation that matches
\* (every character is matched by NEWLINE or MISMATCH at the latest)
MatchAt(s, i) ==
    LET specs == token_specs(s, i)
        k     == CHOOSE k \in 1..Len(specs) :
                     /\ specs[k].len > 0
                     /\ \A h \in 1..(k - 1) : specs[h].len = 0
    IN  specs[k]

\* _find_comment_regions: the (start, end) offsets of the matches of
\* comment_regex from index i on.  The pattern is compiled with DOTALL, so
\* the '.*' of a // comment runs to the end of the text.
RECURSIVE FindCommentRegions(_, _)
FindCommentRegions(s, i) ==
    IF i > Len(s) THEN {}
    ELSE LET closers == {j \in (i + 2)..Len(s) : At(s, j, <<"*", "/">>)}
             j       == CHOOSE j \in closers : \A h \in closers : j <= h
         IN  IF At(s, i, <<"/", "*">>) /\ closers # {}
             THEN {<<i - 1, j + 1>>} \cup FindCommentRegions(s, j + 2)
             ELSE IF At(s, i, <<"/", "/">>) THEN {<<i - 1, Len(s)>>}
             ELSE FindCommentRegions(s, i + 1)

\* Token(token_type, value, line, column)
Token(token_type, value, line, column) ==
    [token_type |-> token_type, value |-> value, line |-> line, column |-> column]

\* LexicalError(description, line, column); the description is the text of
\* the message before the quoted lexeme, and the lexeme
LexicalError(description, value, line, column) ==
    [description |-> description, value |-> value, line |-> line, column |-> column]

\* the checks analyze makes on a token outside comments
TokenErrors(token_type, value, line, column) ==
    (IF token_type = "IDENTIFIER" /\ Len(value) > 31
     THEN <<LexicalError("Identifier exceeds maximum length (31)", value, line, column)>>
     ELSE <<>>)
    \o (IF token_type = "FLOAT" /\ Contains(value, <<".", ".">>)
        THEN <<LexicalError("Malformed number", value, line, column)>>
        ELSE <<>>)
    \o (IF token_type = "PARTIAL_FLOAT"
        THEN <<LexicalError("Incomplete floating-point number", value, line, column)>>
        ELSE <<>>)
    \o (IF token_type = "STRING" /\ Cardinality(Occurrences(value, <<"\"">>)) % 2 # 0
        THEN <<LexicalError("Unclosed string", value, line, column)>>
        ELSE <<>>)

\* the longest text drawn from the alphabet
MaxCode == 3

\* the characters the operator lexemes are made of, a letter and a digit
LexAlphabet == {"<", ">", "=", "!", "&", "|", "+", "-", "a", "1"}

\* source lines with keywords, numbers, strings, comments and line breaks
Snippets ==
    {<<"c", "i", "n", " ", ">", ">", " ", "n", ";">>,
     <<"c", "o", "u", "t", " ", "<", "<", " ", "n", ";">>,
     <<"i", "f", " ", "a", " ", "!", "=", " ", "1", " ", "t", "h", "e", "n">>,
     <<"a", " ", "<", "=", " ", "b", " ", "|", "|", " ", "!", "c">>,
     <<"1", "2", ".", "a", "b", "c">>,
     <<"1", ".", "5", "e", "+", "2", " ", "7", ".">>,
     <<"\"", "a", "\\", "\"", "b", "\"">>,
     <<"\"", "a", "b", "c">>,
     <<"a", " ", "/", "*", " ", "b", " ", "*", "/", " ", "c">>,
     <<"a", " ", "/", "/", " ", "b", "\n", "c">>,
     <<"'", "x", "'", " ", "d", "o", "1", " ", "#">>,
     <<"x", " ", "=", " ", "1", ";", "\n", "y", "+", "+", ";">>,
     <<"3", ".", "x", "_", "1", " ", "y">>,
     <<"\"", "a", "b", "\"", " ", "\"", "c">>,
     <<"\"", "a", "\n", "b", "\"">>}

\* the source texts of the model
Sources == UNION {[1..k -> LexAlphabet] : k \in 0..MaxCode} \cup Snippets

\* the generator and the interpreter before they are given anything
BackIdle ==
    /\ instructions = <<>>
    /\ temp_counter = 0
    /\ label_counter = 0
    /\ labels = EmptyDict
    /\ pc = 0
    /\ iteration_count = 0
    /\ variables = EmptyDict
    /\ output = <<>>
    /\ stderr = <<>>
    /\ stdin = <<>>
    /\ rpos = 0
    /\ run = 1
    /\ prev = NoPrev
    /\ arith = NoArith

\* LexicalAnalyzer() and the start of analyze(code)
InitLex ==
    /\ phase = "lex"
    /\ ast = Programa(<<>>)
    /\ BackIdle
    /\ code \in Sources
    /\ position = 0
    /\ line_num = 1
    /\ line_start = 0
    /\ tokens = <<>>
    /\ lex_errors = <<>>
    /\ symbol_table = EmptyDict
    /\ cross_reference_table = EmptyDict
    /\ current_address = 1
    /\ errors = <<>>
    /\ pending = <<>>
    /\ ParserIdle

\* analyze: one iteration of the loop over self.regex.finditer(code)
NextMatch ==
    /\ phase = "lex"
    /\ position < Len(code)
    /\ \E m \in {MatchAt(code, position + 1)} :
         LET token_type  == m.type
             start_pos   == position
             end_pos     == position + m.len
             token_value == SubSeq(code, start_pos + 1, end_pos)
             column      == start_pos - line_start + 1
             in_comment  == \E region \in FindCommentRegions(code, 1) :
                                start_pos >= region[1] /\ end_pos <= region[2]
         IN  /\ position' = end_pos
             /\ line_num' = IF token_type = "NEWLINE" THEN line_num + 1 ELSE line_num
             /\ line_start' = IF token_type = "NEWLINE" THEN end_pos ELSE line_start
             /\ lex_errors' =
                  IF token_type \in {"NEWLINE", "WHITESPACE"} \/ in_comment
                  THEN lex_errors
                  ELSE IF token_type = "MISMATCH"
                       THEN Append(lex_errors,
                                   LexicalError("Unrecognized character", token_value,
                                                line_num, column))
                       ELSE lex_errors \o TokenErrors(token_type, token_value,
                                                      line_num, column)
             /\ tokens' =
                  IF token_type \in {"NEWLINE", "WHITESPACE", "MISMATCH"} \/ in_comment
                  THEN tokens
                  ELSE Append(tokens, Token(token_type, token_value, line_num, column))
    /\ UNCHANGED <<phase, ast, code, back, symbol_table, cross_reference_table,
                   current_address, errors, pending, syntax>>

\* analyze: the loop is over, self.tokens and self.errors are returned
AnalyzeReturn ==
    /\ phase = "lex"
    /\ position >= Len(code)
    /\ phase' = "lexed"
    /\ UNCHANGED <<ast, back, front>>

NextLex ==
    \/ NextMatch
    \/ AnalyzeReturn

SpecLex == InitLex /\ [][NextLex]_vars

-----------------------------------------------------------------------------
(* SyntaxAnalyzer                                                          *)
(* The analyzer object is the record self: its token list, the index of    *)
(* the current token, its error list and its set of reported locations.    *)
(* A production is an operator from self to the self it leaves and the     *)
(* node it returns. No statement of a production raises except the calls   *)
(* of error with expected_col in parse_declaracion_variable, so the other  *)
(* except clauses are not modelled. hangs records that a while loop of     *)
(* the parser met an iteration that left the current token where it was,   *)
(* which the loop then repeats without end.                                *)

Self(toks, index, errs, locations, hangs) ==
    [tokens |-> toks, current_token_index |-> index, errors |-> errs,
     error_locations |-> locations, hangs |-> hangs]

\* line: int = None, column: int = None of ASTNode.__init__
NoPos == -1

\* ASTNode(node_type, value, line, column, children); value None is <<>>
ASTNode(node_type, value, line, column, children) ==
    [node_type |-> node_type, value |-> value, line |-> line, column |-> column,
     children |-> children]

\* ASTNode.add_child
add_child(node, child) ==
    IF child = NoNode THEN node ELSE [node EXCEPT !.children = Append(@, child)]

\* ASTNode(kind, token.value, token.line, token.column)
TokenNode(kind, token) == ASTNode(kind, token.value, token.line, token.column, <<>>)

\* SyntaxError(description, line, column); the description is the text of
\* the message and the texts it quotes
SyntaxError(description, line, column) ==
    [description |-> description.text, args |-> description.args,
     line |-> line, column |-> column]

Message(text, args) == [text |-> text, args |-> args]

\* self.current_token is not None
HasCurrent(self) ==
    self.current_token_index >= 0 /\ self.current_token_index < Len(self.tokens)

\* self.current_token
current_token(self) == self.tokens[self.current_token_index + 1]

\* self.current_token.value if self.current_token else 'EOF'
ValueOrEOF(self) ==
    IF HasCurrent(self) THEN current_token(self).value ELSE <<"E", "O", "F">>

\* self.current_token.line if self.current_token else 0
LineOrZero(self) == IF HasCurrent(self) THEN current_token(self).line ELSE 0

ColumnOrZero(self) == IF HasCurrent(self) THEN current_token(self).column ELSE 0

\* advance
advance(self) == [self EXCEPT !.current_token_index = @ + 1]

\* match(expected_type, expected_value); expected_value None is <<>>
match(self, expected_type, expected_value) ==
    /\ HasCurrent(self)
    /\ current_token(self).token_type = expected_type
    /\ (expected_value = <<>> \/ current_token(self).value = expected_value)

\* error(message) with no line and no column given
error(self, message) ==
    [self EXCEPT !.errors = Append(@, SyntaxError(message, LineOrZero(self),
                                                  ColumnOrZero(self)))]

\* the text of a token type, as an f-string shows it
TypeText(token_type) ==
    CASE token_type = "IDENTIFIER" -> <<"I", "D", "E", "N", "T", "I", "F", "I", "E", "R">>
      [] token_type = "KEYWORD"    -> <<"K", "E", "Y", "W", "O", "R", "D">>
      [] token_type = "DELIMITER"  -> <<"D", "E", "L", "I", "M", "I", "T", "E", "R">>
      [] OTHER                     -> <<"T", "Y", "P", "E">>

\* consume(expected_type, expected_value, optional): the self it leaves and
\* the token it returns
consume(self, expected_type, expected_value, optional) ==
    IF match(self, expected_type, expected_value)
    THEN [self |-> advance(self), token |-> current_token(self)]
    ELSE IF optional THEN [self |-> self, token |-> NoToken]
    ELSE LET error_msg ==
                 Message("Se esperaba '{}' pero se encontro '{}'",
                         <<IF expected_value # <<>> THEN expected_value
                           ELSE TypeText(expected_type),
                           ValueOrEOF(self)>>)
             error_location == <<LineOrZero(self), ColumnOrZero(self), error_msg>>
         IN  [self  |-> IF error_location \in self.error_locations THEN self
                        ELSE error([self EXCEPT !.error_locations =
                                        @ \cup {error_location}], error_msg),
              token |-> NoToken]

\* sync_tokens of synchronize
sync_tokens ==
    {<<";">>, <<"}">>, <<"e", "n", "d">>, <<"w", "h", "i", "l", "e">>, <<"d", "o">>,
     <<"i", "f">>, <<"e", "l", "s", "e">>, <<"c", "i", "n">>, <<"c", "o", "u", "t">>,
     <<"t", "h", "e", "n">>, <<"m", "a", "i", "n">>, <<"i", "n", "t">>,
     <<"f", "l", "o", "a", "t">>, <<"b", "o", "o", "l">>,
     <<"s", "t", "r", "i", "n", "g">>, <<"u", "n", "t", "i", "l">>}

\* a synchronize that leaves every token it stops at current
RECURSIVE synchronize_staying(_, _)
synchronize_staying(self, recover_token) ==
    IF ~HasCurrent(self) THEN self
    ELSE IF current_token(self).value = recover_token
            \/ current_token(self).value \in sync_tokens
         THEN self
         ELSE synchronize_staying(advance(self), recover_token)

\* synchronize(recover_token); no caller gives a recover_type
RECURSIVE synchronize(_, _)
synchronize(self, recover_token) ==
    IF ~HasCurrent(self) THEN self
    ELSE IF current_token(self).value = recover_token
            \/ current_token(self).value \in sync_tokens
         THEN IF current_token(self).value \in sync_tokens THEN advance(self)
              ELSE self
         ELSE synchronize(advance(self), recover_token)

\* what a production returns: the self it leaves and its node (or None)
Returned(self, node) == [self |-> self, node |-> node]

\* if not left: return None, else what follows
IfNode(returned, Follow(_, _)) ==
    IF returned.node = NoNode THEN returned ELSE Follow(returned.self, returned.node)

\* the body of the while loop of a binary production once the operator token
\* is consumed and the right operand parsed: the node and the next iteration,
\* or the error and the break
BinaryStep(node_type, op_value, op_token, left, right, message, Loop(_, _)) ==
    IF right.node # NoNode
    THEN Loop(right.self,
              ASTNode(node_type, op_value, op_token.line, op_token.column,
                      <<left, right.node>>))
    ELSE Returned(error(right.self, message), left)

RECURSIVE parse_componente(_)
RECURSIVE parse_expresion(_)
RECURSIVE expresion_loop(_, _)
RECURSIVE factor_loop(_, _)
RECURSIVE termino_loop(_, _)
RECURSIVE expresion_simple_loop(_, _)

\* the while loop of parse_factor, entered with left; consume returns the
\* token that match has just accepted
factor_loop(self, left) ==
    IF ~match(self, "ARITH_OP", <<"^">>) THEN Returned(self, left)
    ELSE BinaryStep("factor", current_token(self).value, current_token(self), left,
                    parse_componente(advance(self)),
                    Message("Se esperaba un componente despues de '^'", <<>>),
                    factor_loop)

\* parse_factor: componente ( ^ componente )*
parse_factor(self) == IfNode(parse_componente(self), factor_loop)

\* the while loop of parse_termino, entered with left
termino_loop(self, left) ==
    IF ~(match(self, "ARITH_OP", <<>>)
         /\ current_token(self).value \in {<<"*">>, <<"/">>, <<"%">>})
    THEN Returned(self, left)
    ELSE BinaryStep("termino", current_token(self).value, current_token(self), left,
                    parse_factor(advance(self)),
                    Message("Se esperaba un factor despues de '{}'",
                            <<current_token(self).value>>),
                    termino_loop)

\* parse_termino: factor ( ( * | / | % ) factor )*
parse_termino(self) == IfNode(parse_factor(self), termino_loop)

\* op_value of parse_expresion_simple
AdditiveText(token) ==
    IF token.token_type = "INCREMENT_OP" THEN <<"+", "+">>
    ELSE IF token.token_type = "DECREMENT_OP" THEN <<"-", "-">>
    ELSE token.value

\* the while loop of parse_expresion_simple, entered with left
expresion_simple_loop(self, left) ==
    IF ~(/\ HasCurrent(self)
         /\ \/ /\ current_token(self).token_type = "ARITH_OP"
               /\ current_token(self).value
                      \in {<<"+">>, <<"-">>, <<"+", "+">>, <<"-", "-">>}
            \/ current_token(self).token_type \in {"INCREMENT_OP", "DECREMENT_OP"})
    THEN Returned(self, left)
    ELSE BinaryStep("expresion_simple", AdditiveText(current_token(self)),
                    current_token(self), left, parse_termino(advance(self)),
                    Message("Se esperaba un termino despues de '{}'",
                            <<AdditiveText(current_token(self))>>),
                    expresion_simple_loop)

\* parse_expresion_simple: termino ( ( + | - | ++ | -- ) termino )*
parse_expresion_simple(self) == IfNode(parse_termino(self), expresion_simple_loop)

\* the while loop of parse_expresion, entered with left
expresion_loop(self, left) ==
    IF ~(HasCurrent(self)
         /\ current_token(self).token_type \in {"REL_OP", "LOGIC_OP"})
    THEN Returned(self, left)
    ELSE BinaryStep(IF current_token(self).token_type = "REL_OP"
                    THEN "expresion_relacional" ELSE "expresion_logica",
                    current_token(self).value, current_token(self), left,
                    IF current_token(self).token_type = "REL_OP"
                    THEN parse_expresion_simple(advance(self))
                    ELSE parse_expresion(advance(self)),
                    Message("Se esperaba una expresion despues de '{}'",
                            <<current_token(self).value>>),
                    expresion_loop)

\* parse_expresion
parse_expresion(self) == IfNode(parse_expresion_simple(self), expresion_loop)

\* parse_componente after '(' and the expression: ')' or the error and the
\* recovery
CloseParenthesis(open_token, expr, c) ==
    IF c.token = NoToken
    THEN Returned(
             synchronize(
                 error(c.self,
                       Message("Se esperaba ')' para cerrar el parentesis abierto en linea {}, columna {}",
                               <<NatToStr(open_token.line), NatToStr(open_token.column)>>)),
                 <<";">>),
             expr.node)
    ELSE Returned(c.self, expr.node)

\* parse_componente after '!': the negation of the component, or the error
\* and None (the function ends without a return)
Negation(op_token, comp) ==
    IF comp.node # NoNode
    THEN Returned(comp.self,
                  ASTNode("expresion_logica", op_token.value, op_token.line,
                          op_token.column, <<comp.node>>))
    ELSE Returned(error(comp.self,
                        Message("Se esperaba un componente despues de '!'", <<>>)),
                  NoNode)

\* parse_componente
parse_componente(self) ==
    IF match(self, "DELIMITER", <<"(">>)
    THEN LET Close(expr) ==
                 CloseParenthesis(current_token(self), expr,
                                  consume(expr.self, "DELIMITER", <<")">>, FALSE))
         IN  Close(parse_expresion(advance(self)))
    ELSE IF match(self, "INT", <<>>) \/ match(self, "FLOAT", <<>>)
    THEN Returned(advance(self), TokenNode("numero", current_token(self)))
    ELSE IF match(self, "KEYWORD", <<>>)
            /\ current_token(self).value \in {<<"t", "r", "u", "e">>,
                                              <<"f", "a", "l", "s", "e">>}
    THEN Returned(advance(self), TokenNode("bool", current_token(self)))
    ELSE IF match(self, "IDENTIFIER", <<>>)
    THEN Returned(advance(self),
                  TokenNode(IF current_token(self).value
                                   \in {<<"t", "r", "u", "e">>, <<"f", "a", "l", "s", "e">>}
                            THEN "bool" ELSE "id",
                            current_token(self)))
    ELSE IF match(self, "STRING", <<>>)
    THEN Returned(advance(self), TokenNode("cadena", current_token(self)))
    ELSE IF match(self, "LOGIC_OP", <<"!">>)
    THEN Negation(current_token(self), parse_componente(advance(self)))
    ELSE Returned(error(self, Message("Componente no valido: {}", <<ValueOrEOF(self)>>)),
                  NoNode)

\* the productions below build their node step by step: a step takes what
\* the production holds so far (self and nodo) and what the call made at this
\* step returned, and gives what the production holds after it

\* token = self.consume(...); if token: nodo.add_child(ASTNode(kind, token...))
AddToken(held, consumed, kind) ==
    Returned(consumed.self,
             IF consumed.token = NoToken THEN held.node
             ELSE add_child(held.node, TokenNode(kind, consumed.token)))

\* expr = self.parse_expresion(); if expr: nodo.add_child(expr)
AddParsed(held, parsed) == Returned(parsed.self, add_child(held.node, parsed.node))

\* block = self.parse_...(); if block: nodo.add_child(ASTNode(kind, children=...))
AddWrapped(held, parsed, kind, children) ==
    Returned(parsed.self,
             IF parsed.node = NoNode THEN held.node
             ELSE add_child(held.node, ASTNode(kind, <<>>, NoPos, NoPos, children)))

\* self.consume(..., optional=True) as a statement
Skip(held, consumed) == Returned(consumed.self, held.node)

KwIf == <<"i", "f">>

KwThen == <<"t", "h", "e", "n">>

KwElse == <<"e", "l", "s", "e">>

KwEnd == <<"e", "n", "d">>

KwWhile == <<"w", "h", "i", "l", "e">>

KwDo == <<"d", "o">>

KwUntil == <<"u", "n", "t", "i", "l">>

KwCin == <<"c", "i", "n">>

KwCout == <<"c", "o", "u", "t">>

KwMain == <<"m", "a", "i", "n">>

\* ['int', 'float', 'bool']
TypeNames == {TyInt, TyFloat, TyBool}

\* should_stop_parsing(context)
should_stop_parsing(self, context) ==
    IF ~HasCurrent(self) THEN TRUE
    ELSE IF current_token(self).token_type = "KEYWORD"
            /\ current_token(self).value \in TypeNames
    THEN TRUE
    ELSE CASE context = "default"  -> current_token(self).value = <<"}">>
           [] context = "while"    -> current_token(self).value = KwEnd
           [] context = "do_until" -> current_token(self).value = KwUntil
           [] context = "if_then"  -> current_token(self).value \in {KwElse, KwEnd}
           [] context = "if_else"  -> current_token(self).value = KwEnd
           [] OTHER                -> FALSE

RECURSIVE parse_sentencia(_)
RECURSIVE lista_sentencias_loop(_, _, _)

\* the while loop of parse_lista_sentencias and its return, entered with the
\* children added so far; an iteration that does not move the current token
\* is repeated for ever
lista_sentencias_loop(self, context, children) ==
    IF self.hangs \/ ~HasCurrent(self) \/ should_stop_parsing(self, context)
    THEN Returned(self,
                  IF children = <<>> THEN NoNode
                  ELSE ASTNode("lista_sentencias", <<>>, NoPos, NoPos, children))
    ELSE LET Iteration(sent) ==
                 IF sent.self.current_token_index = self.current_token_index
                 THEN Returned([sent.self EXCEPT !.hangs = TRUE], NoNode)
                 ELSE lista_sentencias_loop(
                          sent.self, context,
                          IF sent.node = NoNode THEN children
                          ELSE Append(children, sent.node))
         IN  Iteration(parse_sentencia(self))

\* parse_lista_sentencias(context)
parse_lista_sentencias(self, context) == lista_sentencias_loop(self, context, <<>>)

\* ASTNode(kind, line=self.current_token.line, column=self.current_token.column)
Started(self, kind) ==
    Returned(self, ASTNode(kind, <<>>, current_token(self).line,
                           current_token(self).column, <<>>))

\* block.children, of a block that may be None
ChildrenOf(parsed) == IF parsed.node = NoNode THEN <<>> ELSE parsed.node.children

\* parse_seleccion: if expresion then lista_sentencias [else lista_sentencias] end
parse_seleccion(self) ==
    LET If(held)   == AddToken(held, consume(held.self, "KEYWORD", KwIf, FALSE), "if")
        Cond(held) == AddParsed(held, parse_expresion(held.self))
        Then(held) == AddToken(held, consume(held.self, "KEYWORD", KwThen, FALSE), "then")
        WithBlock(held, context, kind) ==
            LET Add(parsed) == AddWrapped(held, parsed, kind, ChildrenOf(parsed))
            IN  Add(parse_lista_sentencias(held.self, context))
        ElseBlock(held) == WithBlock(held, "if_else", "else_block")
        Else(held) ==
            IF match(held.self, "KEYWORD", KwElse)
            THEN ElseBlock(AddToken(held,
                                    consume(held.self, "KEYWORD", KwElse, FALSE),
                                    "else"))
            ELSE held
        End(held)  == Skip(held, consume(held.self, "KEYWORD", KwEnd, TRUE))
    IN  End(Else(WithBlock(Then(Cond(If(Started(self, "seleccion")))),
                       "if_then", "then_block")))

\* expr = self.parse_expresion(); if expr: add ASTNode("condicion", [expr])
Condicion(held) ==
    LET Add(parsed) == AddWrapped(held, parsed, "condicion", <<parsed.node>>)
    IN  Add(parse_expresion(held.self))

\* body = self.parse_lista_sentencias(context); if body: add ASTNode("cuerpo", ...)
Cuerpo(held, context) ==
    LET Add(parsed) == AddWrapped(held, parsed, "cuerpo", ChildrenOf(parsed))
    IN  Add(parse_lista_sentencias(held.self, context))

\* self.consume(SYMBOL, ';', optional=True)
Semicolon(held) == Skip(held, consume(held.self, "DELIMITER", <<";">>, TRUE))

\* parse_iteracion: while expresion lista_sentencias end
parse_iteracion(self) ==
    LET While(held) ==
            AddToken(held, consume(held.self, "KEYWORD", KwWhile, FALSE), "while")
        End(held)   == Skip(held, consume(held.self, "KEYWORD", KwEnd, TRUE))
    IN  End(Cuerpo(Condicion(While(Started(self, "iteracion"))), "while"))

\* parse_repeticion: do lista_sentencias until expresion ;
parse_repeticion(self) ==
    LET Do(held)    == AddToken(held, consume(held.self, "KEYWORD", KwDo, FALSE), "do")
        Until(held) ==
            AddToken(held, consume(held.self, "KEYWORD", KwUntil, FALSE), "until")
    IN  Semicolon(Condicion(Until(Cuerpo(Do(Started(self, "repeticion")), "do_until"))))

RECURSIVE sent_in_loop(_)
\* the while loop of parse_sent_in
sent_in_loop(held) ==
    IF ~match(held.self, "STREAM_OP", <<">", ">">>) THEN held
    ELSE LET WithId(op) ==
                 LET Got(consumed) ==
                         IF consumed.token # NoToken
                         THEN sent_in_loop(AddToken(op, consumed, "id"))
                         ELSE Returned(
                                  error(consumed.self,
                                        Message("Se esperaba un identificador despues de '>>'",
                                                <<>>)),
                                  op.node)
                 IN  Got(consume(op.self, "IDENTIFIER", <<>>, FALSE))
         IN  WithId(AddToken(held, consume(held.self, "STREAM_OP", <<">", ">">>, FALSE),
                         ">>"))

\* parse_sent_in: cin >> id ( >> id )* ;
parse_sent_in(self) ==
    LET Cin(held) == AddToken(held, consume(held.self, "KEYWORD", KwCin, FALSE), "cin")
    IN  Semicolon(sent_in_loop(Cin(Started(self, "sent_in"))))

\* (cadena | expresion): the string literal, else the expression; ok tells
\* whether there was one
StringOrExpression(held) ==
    IF match(held.self, "STRING", <<>>)
    THEN [held |-> AddToken(held, consume(held.self, "STRING", <<>>, FALSE), "cadena"),
          ok   |-> TRUE]
    ELSE LET Got(parsed) == [held |-> AddParsed(held, parsed),
                             ok   |-> parsed.node # NoNode]
         IN  Got(parse_expresion(held.self))

RECURSIVE sent_out_loop(_)
\* the while loop of parse_sent_out
sent_out_loop(held) ==
    IF ~match(held.self, "STREAM_OP", <<"<", "<">>) THEN held
    ELSE LET Item(got) ==
                 IF got.ok THEN sent_out_loop(got.held)
                 ELSE Returned(
                          error(got.held.self,
                                Message("Se esperaba una cadena o expresion despues de '<<'",
                                        <<>>)),
                          got.held.node)
         IN  Item(StringOrExpression(
                      AddToken(held, consume(held.self, "STREAM_OP", <<"<", "<">>, FALSE),
                               "<<")))

\* parse_sent_out: cout << (cadena | expresion) ( << (cadena | expresion) )* ;
parse_sent_out(self) ==
    LET Cout(held) ==
            AddToken(held, consume(held.self, "KEYWORD", KwCout, FALSE), "cout")
    IN  Semicolon(sent_out_loop(Cout(Started(self, "sent_out"))))

\* parse_asignacion once the identifier and the operator are consumed: the
\* right-hand side by the kind of operator
RightHandSide(held, id_token, op_token) ==
    IF op_token.value \in {<<"+", "+">>, <<"-", "-">>}
    THEN Returned(held.self,
             add_child(held.node,
                 ASTNode("expresion_simple",
                         IF op_token.value = <<"+", "+">> THEN <<"+">> ELSE <<"-">>,
                         op_token.line, op_token.column,
                         <<TokenNode("id", id_token),
                           ASTNode("numero", <<"1">>, op_token.line, op_token.column,
                                   <<>>)>>)))
    ELSE IF op_token.value \in {<<"+", "=">>, <<"-", "=">>, <<"*", "=">>, <<"/", "=">>,
                                <<"%", "=">>, <<"^", "=">>}
    THEN LET Got(right_expr) ==
                 IF right_expr.node # NoNode
                 THEN Returned(right_expr.self,
                          add_child(held.node,
                              ASTNode("expresion_simple", <<op_token.value[1]>>,
                                      op_token.line, op_token.column,
                                      <<TokenNode("id", id_token), right_expr.node>>)))
                 ELSE Returned(error(right_expr.self,
                                     Message("Se esperaba una expresion despues de '{}'",
                                             <<op_token.value>>)),
                               held.node)
         IN  Got(parse_expresion(held.self))
    ELSE IF op_token.value = <<"=">>
    THEN LET Got(got) ==
                 IF got.ok THEN got.held
                 ELSE Returned(
                          error(got.held.self,
                                Message("Se esperaba una expresion o cadena despues de '='",
                                        <<>>)),
                          got.held.node)
         IN  Got(StringOrExpression(held))
    ELSE held

\* parse_asignacion: id ( = | ++ | -- | += | ... ) (expresion | cadena) ;
parse_asignacion(self) ==
    LET Got(consumed) ==
            IF consumed.token = NoToken
            THEN Returned(error(consumed.self,
                                Message("Se esperaba un identificador", <<>>)),
                          ASTNode("asignacion", <<"e", "r", "r", "o", "r">>, NoPos, NoPos,
                                  <<>>))
            ELSE IF ~HasCurrent(consumed.self)
                    \/ current_token(consumed.self).token_type
                           \notin {"ASSIGN_OP", "INCREMENT_OP", "DECREMENT_OP", "ARITH_OP"}
            THEN Returned(
                     synchronize(
                         error(consumed.self,
                               Message("Se esperaba '=', '++', '--' o operador compuesto en la asignacion",
                                       <<>>)),
                         <<";">>),
                     ASTNode("asignacion", consumed.token.value, NoPos, NoPos, <<>>))
            ELSE Semicolon(
                     RightHandSide(
                         Returned(advance(consumed.self),
                                  ASTNode("asignacion", consumed.token.value,
                                          current_token(consumed.self).line,
                                          current_token(consumed.self).column,
                                          <<TokenNode("id", consumed.token)>>)),
                         consumed.token, current_token(consumed.self)))
    IN  Got(consume(self, "IDENTIFIER", <<>>, FALSE))

\* parse_sentencia
parse_sentencia(self) ==
    IF ~HasCurrent(self) THEN Returned(self, NoNode)
    ELSE IF match(self, "DELIMITER", <<";">>)
    THEN Returned(advance(self), ASTNode("sent_expresion", <<>>, NoPos, NoPos, <<>>))
    ELSE IF match(self, "KEYWORD", KwIf) THEN parse_seleccion(self)
    ELSE IF match(self, "KEYWORD", KwWhile) THEN parse_iteracion(self)
    ELSE IF match(self, "KEYWORD", KwDo) THEN parse_repeticion(self)
    ELSE IF match(self, "KEYWORD", KwCin) THEN parse_sent_in(self)
    ELSE IF match(self, "KEYWORD", KwCout) THEN parse_sent_out(self)
    ELSE IF match(self, "IDENTIFIER", <<>>) THEN parse_asignacion(self)
    ELSE Returned(synchronize(error(self, Message("Sentencia no valida: {}",
                                                  <<current_token(self).value>>)),
                              <<";">>),
                  NoNode)

\* the except clause of parse_declaracion_variable
DeclaracionExcept(self) ==
    Returned(
        synchronize(
            error(self,
                  Message("Error en declaracion de variable: error() got an unexpected keyword argument 'expected_col'",
                          <<>>)),
            <<";">>),
        ASTNode("declaracion_variable", <<"u", "n", "k", "n", "o", "w", "n">>, NoPos, NoPos,
                <<>>))

RECURSIVE declaracion_loop(_)
\* the while loop of parse_declaracion_variable
declaracion_loop(held) ==
    IF ~match(held.self, "DELIMITER", <<",">>) THEN held
    ELSE LET Got(next_id) ==
                 IF next_id.token # NoToken
                 THEN declaracion_loop(AddToken(held, next_id, "id"))
                 ELSE Returned(
                          error(next_id.self,
                                Message("Se esperaba un identificador despues de ','",
                                        <<>>)),
                          held.node)
         IN  Got(consume(advance(held.self), "IDENTIFIER", <<>>, FALSE))

\* parse_declaracion_variable: tipo identificador ( , identificador )* ;
\* both calls of error where ';' is missing give expected_col, a keyword
\* error does not take: they raise TypeError into the except clause
parse_declaracion_variable(self) ==
    LET Got(tipo) ==
            IF tipo.token = NoToken \/ tipo.token.value \notin TypeNames
            THEN Returned(
                     synchronize(
                         error(tipo.self,
                               Message("Tipo de dato no valido: {}",
                                       <<IF tipo.token = NoToken
                                         THEN <<"n", "i", "n", "g", "u", "n", "o">>
                                         ELSE tipo.token.value>>)),
                         <<";">>),
                     ASTNode("declaracion_variable",
                             <<"u", "n", "k", "n", "o", "w", "n">>, NoPos, NoPos, <<>>))
            ELSE LET Ids(held) ==
                         IF ~HasCurrent(held.self)
                            \/ current_token(held.self).value # <<";">>
                         THEN DeclaracionExcept(held.self)
                         ELSE Skip(held, consume(held.self, "DELIMITER", <<";">>, FALSE))
                     First(held) ==
                         AddToken(held, consume(held.self, "IDENTIFIER", <<>>, FALSE), "id")
                 IN  Ids(declaracion_loop(First(
                         Returned(tipo.self, TokenNode("declaracion_variable",
                                                       tipo.token)))))
    IN  Got(consume(self, "KEYWORD", <<>>, FALSE))

\* the analyzer as the variables hold it
SelfNow == Self(syn_tokens, current_token_index, syn_errors, error_locations, FALSE)

\* the variables take the fields of self
Becomes(self) ==
    /\ current_token_index' = self.current_token_index
    /\ syn_errors' = self.errors
    /\ error_locations' = self.error_locations
    /\ UNCHANGED syn_tokens

\* parse, once parse_program has returned program_node: the tokens left
\* over are an error
ParseReturns(self, program_node) ==
    /\ ast' = program_node
    /\ Becomes(IF HasCurrent(self)
               THEN error(self, Message("Hay tokens adicionales despues del programa principal",
                                        <<>>))
               ELSE self)
    /\ phase' = "parsed"

\* parse_program up to the call of parse_lista_declaracion: main and {
ParseProgramBegin ==
    /\ phase = "syn"
    /\ \E m \in {consume(SelfNow, "KEYWORD", KwMain, FALSE)} :
         IF m.token = NoToken
         THEN ParseReturns(m.self, ASTNode("programa", <<>>, 1, 1, <<>>)) /\ UNCHANGED nodo
         ELSE \E b \in {consume(m.self, "DELIMITER", <<"{">>, FALSE)} :
                IF b.token = NoToken
                THEN /\ ParseReturns(b.self, ASTNode("programa", <<>>, 1, 1,
                                                     <<TokenNode("main", m.token)>>))
                     /\ UNCHANGED nodo
                ELSE /\ ast' = ASTNode("programa", <<>>, 1, 1,
                                       <<TokenNode("main", m.token),
                                         ASTNode("{", <<"{">>, m.token.line,
                                                 m.token.column, <<>>)>>)
                     /\ nodo' = ASTNode("lista_declaracion", <<>>, NoPos, NoPos, <<>>)
                     /\ Becomes(b.self)
                     /\ phase' = "lista"
    /\ UNCHANGED <<back, code, position, line_num, line_start, tokens, lex_errors,
                   symbol_table, cross_reference_table, current_address, errors,
                   pending>>

\* the condition of the while loop of parse_lista_declaracion
ListaDeclaracionCondition(self) ==
    HasCurrent(self) /\ current_token(self).value # <<"}">>

\* the body of the while loop of parse_lista_declaracion
ListaDeclaracionBody(self) ==
    IF current_token(self).value \in TypeNames
    THEN parse_declaracion_variable(self)
    ELSE parse_sentencia(self)

\* one iteration of the while loop of parse_lista_declaracion; a statement
\* whose own loop never ends does not return
ListaDeclaracionIteration ==
    /\ phase = "lista"
    /\ ListaDeclaracionCondition(SelfNow)
    /\ \E r \in {ListaDeclaracionBody(SelfNow)} :
         /\ Becomes(r.self)
         /\ nodo' = add_child(nodo, r.node)
         /\ phase' = IF r.self.hangs THEN "hung" ELSE "lista"
    /\ UNCHANGED <<ast, back, code, position, line_num, line_start, tokens, lex_errors,
                   symbol_table, cross_reference_table, current_address, errors,
                   pending>>

\* parse_program after parse_lista_declaracion: the closing brace
CloseProgram(self) ==
    LET Closed(c) ==
            IF c.token # NoToken THEN c.self
            ELSE LET Recovered(s) ==
                         IF HasCurrent(s) /\ current_token(s).value = <<"}">>
                         THEN advance(s) ELSE s
                 IN  Recovered(synchronize(c.self, <<"}">>))
    IN  Closed(consume(self, "DELIMITER", <<"}">>, TRUE))

\* the loop of parse_lista_declaracion is over: parse_program adds the list,
\* closes the program and parse returns
ParseProgramEnd ==
    /\ phase = "lista"
    /\ ~ListaDeclaracionCondition(SelfNow)
    /\ \E s \in {CloseProgram(SelfNow)} :
         ParseReturns(s,
             add_child(add_child(ast, IF nodo.children = <<>> THEN NoNode ELSE nodo),
                       ASTNode("}", <<"}">>, LineOrZero(s), ColumnOrZero(s), <<>>)))
    /\ nodo' = NoNode
    /\ UNCHANGED <<back, code, position, line_num, line_start, tokens, lex_errors,
                   symbol_table, cross_reference_table, current_address, errors,
                   pending>>

NextParse ==
    \/ ParseProgramBegin
    \/ ListaDeclaracionIteration
    \/ ParseProgramEnd

\* a token by its type and its text
Lexeme(token_type, value) == [token_type |-> token_type, value |-> value]

Kw(value) == Lexeme("KEYWORD", value)

Sym(value) == Lexeme("DELIMITER", value)

Ident(value) == Lexeme("IDENTIFIER", value)

Integer(value) == Lexeme("INT", value)

Arith(value) == Lexeme("ARITH_OP", value)

\* the tokens of one line of text: the k-th in column k
OneLine(lexemes) ==
    [k \in 1..Len(lexemes) |-> Token(lexemes[k].token_type, lexemes[k].value, 1, k)]

\* main { <lexemes> }
InMain(lexemes) == <<Kw(KwMain), Sym(<<"{">>)>> \o lexemes \o <<Sym(<<"}">>)>>

\* the sequence without its k-th element
Without(seq, k) == SubSeq(seq, 1, k - 1) \o SubSeq(seq, k + 1, Len(seq))

T_x == Ident(<<"x">>)

T_y == Ident(<<"y">>)

T_a == Ident(<<"a">>)

T_1 == Integer(<<"1">>)

T_semi == Sym(<<";">>)

T_assign == Lexeme("ASSIGN_OP", <<"=">>)

T_not == Lexeme("LOGIC_OP", <<"!">>)

T_pow == Arith(<<"^">>)

\* well-formed programs
GoodBodies ==
    {<<Kw(TyInt), T_x, Sym(<<",">>), T_y, T_semi,
       T_x, T_assign, T_a, T_pow, T_1, T_pow, T_y, T_semi>>,
     <<Kw(KwIf), T_a, Kw(KwThen), T_y, T_assign, T_1, T_semi, Kw(KwEnd),
       Kw(KwCout), Lexeme("STREAM_OP", <<"<", "<">>), T_y, T_semi>>,
     <<Kw(KwWhile), T_a, Lexeme("REL_OP", <<"<">>), T_1,
       T_x, Lexeme("INCREMENT_OP", <<"+", "+">>), T_semi, Kw(KwEnd),
       Kw(KwDo), T_x, Arith(<<"-", "=">>), T_1, T_semi,
       Kw(KwUntil), T_x, Lexeme("REL_OP", <<"=", "=">>), T_1, T_semi>>,
     <<Kw(KwCin), Lexeme("STREAM_OP", <<">", ">">>), T_x, T_semi,
       Kw(KwCout), Lexeme("STREAM_OP", <<"<", "<">>), Lexeme("STRING", <<"\"", "s", "\"">>),
       Lexeme("STREAM_OP", <<"<", "<">>), T_x, Arith(<<"*">>),
       Sym(<<"(">>), T_a, Arith(<<"+">>), T_1, Sym(<<")">>), T_semi>>,
     <<Kw(KwIf), T_not, T_a, Lexeme("LOGIC_OP", <<"&", "&">>), Kw(<<"t", "r", "u", "e">>),
       Kw(KwThen), T_x, T_assign, T_1, T_semi,
       Kw(KwElse), T_x, T_assign, Lexeme("FLOAT", <<"1", ".", "5">>), T_semi, Kw(KwEnd)>>}

GoodPrograms == {InMain(body) : body \in GoodBodies}

\* a well-formed program with one token taken out
Damaged == UNION {{Without(p, k) : k \in 1..Len(p)} : p \in GoodPrograms}

\* programs with errors in them
BadBodies ==
    {<<T_x, T_1, Kw(KwIf), T_a, Kw(KwThen), T_y, T_assign, T_1, T_semi, Kw(KwEnd),
       Kw(KwCout), Lexeme("STREAM_OP", <<"<", "<">>), T_y, T_semi>>,
     <<T_x, T_assign, T_not, T_not, T_semi>>,
     <<Kw(TyInt), T_x, Kw(TyInt), T_y, T_semi>>,
     <<T_x, T_assign, Sym(<<"(">>), T_a, Arith(<<"+">>), T_1, T_semi, T_y, T_assign, T_1,
       T_semi>>,
     <<Kw(KwWhile), T_a, T_x, T_assign, T_1, T_semi>>,
     <<Kw(KwCin), Lexeme("STREAM_OP", <<">", ">">>), T_1, T_semi,
       Kw(KwCout), Lexeme("STREAM_OP", <<"<", "<">>), T_semi>>,
     <<Kw(KwElse), T_x, Arith(<<"+">>), T_1, T_semi, Kw(KwThen), T_semi>>}

\* the longest body drawn from the pool
MaxBody == 2

BodyPool ==
    {T_x, T_1, T_semi, T_assign, T_not, T_pow, Kw(TyInt), Kw(KwIf), Kw(KwThen),
     Kw(KwEnd), Kw(KwWhile), Kw(KwDo), Kw(KwUntil), Kw(KwElse), Kw(KwCin), Kw(KwCout),
     Lexeme("STREAM_OP", <<">", ">">>), Lexeme("STREAM_OP", <<"<", "<">>),
     Lexeme("REL_OP", <<"<">>), Arith(<<"+">>), Sym(<<"(">>), Sym(<<")">>), Sym(<<",">>),
     Sym(<<"}">>), Sym(<<"{">>), Kw(KwMain), Lexeme("INCREMENT_OP", <<"+", "+">>),
     Lexeme("STRING", <<"\"", "s", "\"">>)}

\* every body of up to MaxBody tokens of the pool, in main { } and bare
PoolPrograms ==
    LET bodies == UNION {[1..k -> BodyPool] : k \in 0..MaxBody}
    IN  {InMain(b) : b \in bodies} \cup (bodies \ {<<>>})

ParseInputs ==
    {OneLine(p) : p \in GoodPrograms \cup Damaged \cup {InMain(b) : b \in BadBodies}
                        \cup PoolPrograms}

\* SyntaxAnalyzer(), load_tokens, which makes the first token current, and
\* the call of parse
InitParse ==
    /\ phase = "syn"
    /\ ast = NoNode
    /\ BackIdle
    /\ code = <<>>
    /\ position = 0
    /\ line_num = 1
    /\ line_start = 0
    /\ tokens = <<>>
    /\ lex_errors = <<>>
    /\ symbol_table = EmptyDict
    /\ cross_reference_table = EmptyDict
    /\ current_address = 1
    /\ errors = <<>>
    /\ pending = <<>>
    /\ syn_tokens \in ParseInputs
    /\ current_token_index = 0
    /\ syn_errors = <<>>
    /\ error_locations = {}
    /\ nodo = NoNode

SpecParse == InitParse /\ [][NextParse]_vars

-----------------------------------------------------------------------------
(* SemanticAnalyzer                                                        *)
(* A node of the AST is the dict json.load gives: node_type, value, line   *)
(* and children (columns are not modelled).  visit adds the keys           *)
(* semantic_type and semantic_value to the nodes it annotates.  Types are  *)
(* the text of the type names.                                             *)

TyString == <<"s", "t", "r", "i", "n", "g">>

TyError == <<"e", "r", "r", "o", "r">>

TyVoid == <<"v", "o", "i", "d">>

TyStructural == <<"s", "t", "r", "u", "c", "t", "u", "r", "a", "l">>

\* the tree of a statement whose tokens all stand on line ln; a subtree that
\* has its line already keeps it
RECURSIVE OnLine(_, _)
OnLine(node, ln) ==
    IF "line" \in DOMAIN node THEN node
    ELSE [node_type |-> node.node_type, value |-> node.value, line |-> ln,
          children  |-> [k \in 1..Len(node.children) |->
                             OnLine(node.children[k], ln)]]

\* node['semantic_type'] = t; node['semantic_value'] = v, on a node whose
\* children are ch after their own visits
Annotated(node, ch, t, v) ==
    [node_type |-> node.node_type, value |-> node.value, line |-> node.line,
     children |-> ch, semantic_type |-> t, semantic_value |-> v]

\* SemanticError(description, line, column): the description is the text of
\* the message and the names it quotes
SemanticError(msg, args, line) == [msg |-> msg, args |-> args, line |-> line]

\* cross_reference_table[name]['lines'].append(line) for a name in the table
AppendLine(xref, name, line) ==
    IF name \in DOMAIN xref
    THEN [xref EXCEPT ![name].lines = Append(@, line)]
    ELSE xref

\* what a visitor hands back: the (type, value) pair it returns, its
\* children as it leaves them, and self.errors and the cross-reference table
Visited(ch, t, v, errs, xref) ==
    [children |-> ch, type |-> t, value |-> v, errors |-> errs, xref |-> xref]

\* visit_id that lets a read of an uninitialised variable pass in silence
visit_id_silent(node, symtab, errs, xref) ==
    LET var_name == node.value
        xr       == AppendLine(xref, var_name, node.line)
    IN  IF var_name \notin DOMAIN symtab
        THEN Visited(<<>>, TyError, NoneV,
                     Append(errs, SemanticError("Variable no declarada",
                                                <<var_name>>, node.line)), xr)
        ELSE Visited(<<>>, symtab[var_name].type,
                     IF symtab[var_name].is_initialized
                     THEN symtab[var_name].const_value ELSE NoneV,
                     errs, xr)

\* visit_id that gives a read of an uninitialised variable the type error
visit_id_poisoning(node, symtab, errs, xref) ==
    LET var_name == node.value
        xr       == AppendLine(xref, var_name, node.line)
    IN  IF var_name \notin DOMAIN symtab
        THEN Visited(<<>>, TyError, NoneV,
                     Append(errs, SemanticError("Variable no declarada",
                                                <<var_name>>, node.line)), xr)
        ELSE IF ~symtab[var_name].is_initialized
        THEN Visited(<<>>, TyError, NoneV,
                     Append(errs, SemanticError("Variable usada antes de ser inicializada",
                                                <<var_name>>, node.line)), xr)
        ELSE Visited(<<>>, symtab[var_name].type, symtab[var_name].const_value,
                     errs, xr)

\* SemanticAnalyzer.visit_id
visit_id(node, symtab, errs, xref) ==
    LET var_name == node.value
        xr       == AppendLine(xref, var_name, node.line)
    IN  IF var_name \notin DOMAIN symtab
        THEN Visited(<<>>, TyError, NoneV,
                     Append(errs, SemanticError("Variable no declarada",
                                                <<var_name>>, node.line)), xr)
        ELSE IF ~symtab[var_name].is_initialized
        THEN Visited(<<>>, symtab[var_name].type, NoneV,
                     Append(errs, SemanticError("Variable usada antes de ser inicializada",
                                                <<var_name>>, node.line)), xr)
        ELSE Visited(<<>>, symtab[var_name].type, symtab[var_name].const_value,
                     errs, xr)

\* SemanticAnalyzer.visit_numero
visit_numero(node, errs, xref) ==
    LET AsFloat(f) == IF f.ok THEN Visited(<<>>, TyFloat, FloatV(f.n, f.d), errs, xref)
                    ELSE Visited(<<>>, TyError, NoneV,
                                 Append(errs, SemanticError("Literal numerico mal formado",
                                                            <<node.value>>, node.line)), xref)
        AsInt(i) == IF i.ok THEN Visited(<<>>, TyInt, IntV(i.n), errs, xref)
                    ELSE Visited(<<>>, TyError, NoneV,
                                 Append(errs, SemanticError("Literal numerico mal formado",
                                                            <<node.value>>, node.line)), xref)
    IN  IF HasChar(node.value, ".") THEN AsFloat(PyFloat(node.value))
        ELSE AsInt(PyInt(node.value))

\* the comparison of visit_expresion_relacional on two constant values;
\* err stands for the TypeError of an ordering Python does not define
Compare(op, l, r) ==
    IF op \in {<<"=", "=">>, <<"!", "=">>}
    THEN [v |-> BoolV(PyEq(l, r) = (op = <<"=", "=">>)), err |-> FALSE]
    ELSE IF IsNum(l) /\ IsNum(r)
    THEN [v |-> BoolV(CASE op = <<"<">>      -> NumLt(l, r)
                        [] op = <<">">>      -> NumLt(r, l)
                        [] op = <<"<", "=">> -> ~NumLt(r, l)
                        [] op = <<">", "=">> -> ~NumLt(l, r)
                        [] OTHER             -> FALSE),
          err |-> FALSE]
    ELSE IF l.t = "str" /\ r.t = "str" THEN [v |-> UnmodelledV, err |-> FALSE]
    ELSE [v |-> NoneV, err |-> TRUE]

RECURSIVE visit(_, _, _, _)

\* SemanticAnalyzer.visit_expresion_simple, visit_termino and visit_factor
visit_arithmetic(node, symtab, errs, xref) ==
    LET op == node.value
        Both(l, r) ==
            LET ch          == <<l.node, r.node>>
                numbers     == {TyInt, TyFloat}
                result_type == IF l.type = TyFloat \/ r.type = TyFloat
                               THEN TyFloat ELSE TyInt
                Fold(c) ==
                    LET es == r.errors
                              \o [k \in 1..Len(c.err) |->
                                      SemanticError(c.err[k], <<>>, node.line)]
                    IN  IF /\ node.node_type = "termino"
                           /\ op = <<"%">> /\ result_type = TyFloat
                        THEN Visited(ch, TyError, NoneV,
                                     Append(es, SemanticError(ModFloatMsg, <<>>, node.line)),
                                     r.xref)
                        ELSE Visited(ch, result_type, c.v, es, r.xref)
            IN  IF l.type = TyError \/ r.type = TyError
                THEN Visited(ch, TyError, NoneV, r.errors, r.xref)
                ELSE IF l.type \notin numbers \/ r.type \notin numbers
                THEN Visited(ch, TyError, NoneV,
                             Append(r.errors,
                                    SemanticError("Operador aritmetico no se puede aplicar",
                                                  <<op, l.type, r.type>>, node.line)),
                             r.xref)
                ELSE Fold(IF l.value.t = "str" \/ r.value.t = "str"
                             \/ l.value.t = "unmodelled" \/ r.value.t = "unmodelled"
                          THEN [v |-> UnmodelledV, err |-> <<>>]
                          ELSE CalculateArithmetic(op[1], l.value, r.value,
                                                   IF result_type = TyFloat
                                                   THEN "float" ELSE "int"))
        Right(l) == Both(l, visit(node.children[2], symtab, l.errors, l.xref))
    IN  Right(visit(node.children[1], symtab, errs, xref))

\* visit_expresion_relacional that hands the type error of an operand on
visit_expresion_relacional_poisoning(node, symtab, errs, xref) ==
    LET op == node.value
        Both(l, r) ==
            LET ch             == <<l.node, r.node>>
                numeric_compat == l.type \in {TyInt, TyFloat} /\ r.type \in {TyInt, TyFloat}
                bool_compat    == l.type = TyBool /\ r.type = TyBool
                Result(c) ==
                    IF c.err
                    THEN Visited(ch, TyBool, NoneV,
                                 Append(r.errors,
                                        SemanticError("Error en operacion relacional",
                                                      <<>>, node.line)), r.xref)
                    ELSE Visited(ch, TyBool, c.v, r.errors, r.xref)
            IN  IF l.type = TyError \/ r.type = TyError
                THEN Visited(ch, TyError, NoneV, r.errors, r.xref)
                ELSE IF ~(numeric_compat \/ bool_compat)
                THEN Visited(ch, TyBool, NoneV,
                             Append(r.errors,
                                    SemanticError("Operador relacional no se puede aplicar",
                                                  <<op, l.type, r.type>>, node.line)),
                             r.xref)
                ELSE IF l.value = NoneV \/ r.value = NoneV
                THEN Visited(ch, TyBool, NoneV, r.errors, r.xref)
                ELSE Result(Compare(op, l.value, r.value))
        Right(l) == Both(l, visit(node.children[2], symtab, l.errors, l.xref))
    IN  Right(visit(node.children[1], symtab, errs, xref))

\* SemanticAnalyzer.visit_expresion_relacional
visit_expresion_relacional(node, symtab, errs, xref) ==
    LET op == node.value
        Both(l, r) ==
            LET ch             == <<l.node, r.node>>
                numeric_compat == l.type \in {TyInt, TyFloat} /\ r.type \in {TyInt, TyFloat}
                bool_compat    == l.type = TyBool /\ r.type = TyBool
                Result(c) ==
                    IF c.err
                    THEN Visited(ch, TyBool, NoneV,
                                 Append(r.errors,
                                        SemanticError("Error en operacion relacional",
                                                      <<>>, node.line)), r.xref)
                    ELSE Visited(ch, TyBool, c.v, r.errors, r.xref)
            IN  IF l.type = TyError \/ r.type = TyError
                THEN Visited(ch, TyBool, NoneV, r.errors, r.xref)
                ELSE IF ~(numeric_compat \/ bool_compat)
                THEN Visited(ch, TyBool, NoneV,
                             Append(r.errors,
                                    SemanticError("Operador relacional no se puede aplicar",
                                                  <<op, l.type, r.type>>, node.line)),
                             r.xref)
                ELSE IF l.value = NoneV \/ r.value = NoneV
                THEN Visited(ch, TyBool, NoneV, r.errors, r.xref)
                ELSE Result(Compare(op, l.value, r.value))
        Right(l) == Both(l, visit(node.children[2], symtab, l.errors, l.xref))
    IN  Right(visit(node.children[1], symtab, errs, xref))

\* SemanticAnalyzer.visit_expresion_logica
visit_expresion_logica(node, symtab, errs, xref) ==
    LET op == node.value
        Unary(o) ==
            IF o.type \notin {TyBool, TyError}
            THEN Visited(<<o.node>>, TyBool, NoneV,
                         Append(o.errors,
                                SemanticError("Operador logico '!' no se puede aplicar",
                                              <<o.type>>, node.line)), o.xref)
            ELSE Visited(<<o.node>>, TyBool,
                         IF o.value # NoneV THEN BoolV(~Truthy(o.value)) ELSE NoneV,
                         o.errors, o.xref)
        Both(l, r) ==
            LET ch == <<l.node, r.node>>
                es == r.errors
                      \o (IF l.type \notin {TyBool, TyError}
                          THEN <<SemanticError("Operador logico requiere 'bool' (izquierda)",
                                               <<op, l.type>>, node.line)>>
                          ELSE <<>>)
                      \o (IF r.type \notin {TyBool, TyError}
                          THEN <<SemanticError("Operador logico requiere 'bool' (derecha)",
                                               <<op, r.type>>, node.line)>>
                          ELSE <<>>)
            IN  IF l.type = TyError \/ r.type = TyError
                THEN Visited(ch, TyBool, NoneV, es, r.xref)
                ELSE IF l.value = NoneV \/ r.value = NoneV
                THEN Visited(ch, TyBool, NoneV, es, r.xref)
                ELSE Visited(ch, TyBool,
                             CASE op = <<"&", "&">> ->
                                      IF Truthy(l.value) THEN r.value ELSE l.value
                               [] op = <<"|", "|">> ->
                                      IF Truthy(l.value) THEN l.value ELSE r.value
                               [] OTHER -> NoneV,
                             es, r.xref)
        Right(l) == Both(l, visit(node.children[2], symtab, l.errors, l.xref))
    IN  IF op = <<"!">> THEN Unary(visit(node.children[1], symtab, errs, xref))
        ELSE Right(visit(node.children[1], symtab, errs, xref))

\* SemanticAnalyzer.visit on an expression node: the visitor of its
\* node_type (generic_visit for a node_type that has none), then the
\* annotation of the node.  The result also carries the node as annotated.
visit(node, symtab, errs, xref) ==
    LET Annotate(r) ==
            [node   |-> Annotated(node, r.children, r.type, r.value),
             type   |-> r.type, value |-> r.value,
             errors |-> r.errors, xref |-> r.xref]
        nt == node.node_type
    IN  Annotate(
          CASE nt = "id" -> visit_id(node, symtab, errs, xref)
            [] nt = "numero" -> visit_numero(node, errs, xref)
            [] nt = "bool" ->
                 Visited(<<>>, TyBool, BoolV(node.value = <<"t", "r", "u", "e">>), errs, xref)
            [] nt = "cadena" -> Visited(<<>>, TyString, StrV(node.value), errs, xref)
            [] nt \in {"expresion_simple", "termino", "factor"} ->
                 visit_arithmetic(node, symtab, errs, xref)
            [] nt = "expresion_relacional" ->
                 visit_expresion_relacional(node, symtab, errs, xref)
            [] nt = "expresion_logica" ->
                 visit_expresion_logica(node, symtab, errs, xref)
            [] OTHER -> Visited(node.children, TyStructural, NoneV, errs, xref))

\* node['semantic_type'] = t on a node that is not itself visited
Typed(node, t) ==
    [node_type |-> node.node_type, value |-> node.value, line |-> node.line,
     children |-> node.children, semantic_type |-> t]

\* the node at a path of 1-based child indices
RECURSIVE NodeAt(_, _)
NodeAt(tree, path) ==
    IF path = <<>> THEN tree ELSE NodeAt(tree.children[Head(path)], Tail(path))

\* the tree with the node at a path replaced
RECURSIVE ReplaceAt(_, _, _)
ReplaceAt(tree, path, node) ==
    IF path = <<>> THEN node
    ELSE [tree EXCEPT !.children[Head(path)] =
                          ReplaceAt(tree.children[Head(path)], Tail(path), node)]

\* The recursion of visit over statements is kept as a list of visits still
\* to run.  An entry is a call self.visit(node at path) ("visit"), the part
\* of visit_repeticion after its body ("until"), the assignment of
\* semantic_type that ends a visit whose children have been visited
\* ("annotate"), or a subscript that raises IndexError ("raise").
Call(op, path, type) == [op |-> op, path |-> path, type |-> type]

\* the analyzer's tables and error list, as the visitors pass them on
Tables(symtab, errs, xref, addr) ==
    [symbol_table |-> symtab, errors |-> errs, cross_reference_table |-> xref,
     current_address |-> addr]

\* a statement visitor has returned
Done(node, S) == [node |-> node, S |-> S, push |-> <<>>, raised |-> FALSE]

\* a statement visitor has raised
Raised(node, S) == [node |-> node, S |-> S, push |-> <<>>, raised |-> TRUE]

\* a statement visitor goes on with the visits of calls and returns type t
Defer(node, path, S, calls, t) ==
    [node |-> node, S |-> S, push |-> calls \o <<Call("annotate", path, t)>>,
     raised |-> FALSE]

\* visit_declaracion_variable in which a rejected duplicate uses up an address
RECURSIVE visit_declaracion_variable_gap(_, _, _)
visit_declaracion_variable_gap(node, k, S) ==
    IF k > Len(node.children)
    THEN Done(Annotated(node, node.children, TyVoid, NoneV), S)
    ELSE LET var_type == node.value
             id_node  == node.children[k]
             var_name == id_node.value
             line     == id_node.line
             S2 == IF var_name \in DOMAIN S.symbol_table
                   THEN Tables(S.symbol_table,
                               Append(S.errors,
                                      SemanticError("Identificador duplicado",
                                                    <<var_name>>, line)),
                               S.cross_reference_table, S.current_address + 1)
                   ELSE Tables(DictSet(S.symbol_table, var_name,
                                       [type |-> var_type, line |-> line,
                                        is_initialized |-> FALSE,
                                        const_value |-> NoneV]),
                               S.errors,
                               DictSet(S.cross_reference_table, var_name,
                                       [type |-> var_type, lines |-> <<line>>,
                                        address |-> S.current_address]),
                               S.current_address + 1)
         IN  visit_declaracion_variable_gap(
                 [node EXCEPT !.children[k] = Typed(id_node, var_type)], k + 1, S2)

\* SemanticAnalyzer.visit_declaracion_variable: the loop from child k on
RECURSIVE visit_declaracion_variable(_, _, _)
visit_declaracion_variable(node, k, S) ==
    IF k > Len(node.children)
    THEN Done(Annotated(node, node.children, TyVoid, NoneV), S)
    ELSE LET var_type == node.value
             id_node  == node.children[k]
             var_name == id_node.value
             line     == id_node.line
             S2 == IF var_name \in DOMAIN S.symbol_table
                   THEN [S EXCEPT !.errors =
                             Append(@, SemanticError("Identificador duplicado",
                                                     <<var_name>>, line))]
                   ELSE Tables(DictSet(S.symbol_table, var_name,
                                       [type |-> var_type, line |-> line,
                                        is_initialized |-> FALSE,
                                        const_value |-> NoneV]),
                               S.errors,
                               DictSet(S.cross_reference_table, var_name,
                                       [type |-> var_type, lines |-> <<line>>,
                                        address |-> S.current_address]),
                               S.current_address + 1)
         IN  visit_declaracion_variable(
                 [node EXCEPT !.children[k] = Typed(id_node, var_type)], k + 1, S2)

\* visit_asignacion without the silent promotion of int to float
visit_asignacion_strict(node, S) ==
    IF Len(node.children) < 2 THEN Raised(node, S)
    ELSE
    LET id_node  == node.children[1]
        var_name == id_node.value
        line     == node.line
        declared == var_name \in DOMAIN S.symbol_table
        lhs_type == IF declared THEN S.symbol_table[var_name].type ELSE TyError
        Check(rhs) ==
            LET mismatch == /\ lhs_type # TyError /\ rhs.type # TyError
                            /\ lhs_type # rhs.type
            IN  Done(Annotated(node,
                               <<Typed(id_node, lhs_type), rhs.node>>
                               \o SubSeq(node.children, 3, Len(node.children)),
                               TyVoid, rhs.value),
                     Tables(IF lhs_type # TyError
                            THEN [S.symbol_table EXCEPT
                                      ![var_name].is_initialized = TRUE,
                                      ![var_name].const_value = rhs.value]
                            ELSE S.symbol_table,
                            IF mismatch
                            THEN Append(rhs.errors,
                                        SemanticError("Incompatibilidad de tipos: No se puede asignar",
                                                      <<rhs.type, lhs_type>>, line))
                            ELSE rhs.errors,
                            rhs.xref, S.current_address))
    IN  Check(visit(node.children[2], S.symbol_table,
                    IF declared THEN S.errors
                    ELSE Append(S.errors,
                                SemanticError("Variable no declarada en asignacion",
                                              <<var_name>>, line)),
                    AppendLine(S.cross_reference_table, var_name, line)))

\* SemanticAnalyzer.visit_asignacion
visit_asignacion(node, S) ==
    IF Len(node.children) < 2 THEN Raised(node, S)
    ELSE
    LET id_node  == node.children[1]
        var_name == id_node.value
        line     == node.line
        declared == var_name \in DOMAIN S.symbol_table
        lhs_type == IF declared THEN S.symbol_table[var_name].type ELSE TyError
        Check(rhs) ==
            LET mismatch == /\ lhs_type # TyError /\ rhs.type # TyError
                            /\ lhs_type # rhs.type
                            /\ ~(lhs_type = TyFloat /\ rhs.type = TyInt)
            IN  Done(Annotated(node,
                               <<Typed(id_node, lhs_type), rhs.node>>
                               \o SubSeq(node.children, 3, Len(node.children)),
                               TyVoid, rhs.value),
                     Tables(IF lhs_type # TyError
                            THEN [S.symbol_table EXCEPT
                                      ![var_name].is_initialized = TRUE,
                                      ![var_name].const_value = rhs.value]
                            ELSE S.symbol_table,
                            IF mismatch
                            THEN Append(rhs.errors,
                                        SemanticError("Incompatibilidad de tipos: No se puede asignar",
                                                      <<rhs.type, lhs_type>>, line))
                            ELSE rhs.errors,
                            rhs.xref, S.current_address))
    IN  Check(visit(node.children[2], S.symbol_table,
                    IF declared THEN S.errors
                    ELSE Append(S.errors,
                                SemanticError("Variable no declarada en asignacion",
                                              <<var_name>>, line)),
                    AppendLine(S.cross_reference_table, var_name, line)))

\* visit_sent_in that leaves the const_value of its target
RECURSIVE visit_sent_in_keeping(_, _, _)
visit_sent_in_keeping(node, k, S) ==
    IF k > Len(node.children)
    THEN Done(Annotated(node, node.children, TyVoid, NoneV), S)
    ELSE LET child    == node.children[k]
             var_name == child.value
             xr       == AppendLine(S.cross_reference_table, var_name, child.line)
         IN  IF child.node_type # "id" THEN visit_sent_in_keeping(node, k + 1, S)
             ELSE IF var_name \notin DOMAIN S.symbol_table
             THEN visit_sent_in_keeping(
                      [node EXCEPT !.children[k] = Typed(child, TyError)], k + 1,
                      Tables(S.symbol_table,
                             Append(S.errors,
                                    SemanticError("Variable no declarada en 'cin'",
                                                  <<var_name>>, child.line)),
                             xr, S.current_address))
             ELSE visit_sent_in_keeping(
                      [node EXCEPT !.children[k] =
                                       Typed(child, S.symbol_table[var_name].type)],
                      k + 1,
                      Tables([S.symbol_table EXCEPT
                                  ![var_name].is_initialized = TRUE],
                             S.errors, xr, S.current_address))

\* SemanticAnalyzer.visit_sent_in: the loop from child k on
RECURSIVE visit_sent_in(_, _, _)
visit_sent_in(node, k, S) ==
    IF k > Len(node.children)
    THEN Done(Annotated(node, node.children, TyVoid, NoneV), S)
    ELSE LET child    == node.children[k]
             var_name == child.value
             xr       == AppendLine(S.cross_reference_table, var_name, child.line)
         IN  IF child.node_type # "id" THEN visit_sent_in(node, k + 1, S)
             ELSE IF var_name \notin DOMAIN S.symbol_table
             THEN visit_sent_in(
                      [node EXCEPT !.children[k] = Typed(child, TyError)], k + 1,
                      Tables(S.symbol_table,
                             Append(S.errors,
                                    SemanticError("Variable no declarada en 'cin'",
                                                  <<var_name>>, child.line)),
                             xr, S.current_address))
             ELSE visit_sent_in(
                      [node EXCEPT !.children[k] =
                                       Typed(child, S.symbol_table[var_name].type)],
                      k + 1,
                      Tables([S.symbol_table EXCEPT
                                  ![var_name].is_initialized = TRUE,
                                  ![var_name].const_value = NoneV],
                             S.errors, xr, S.current_address))

\* SemanticAnalyzer.visit_sent_out: the loop from child k on
RECURSIVE visit_sent_out(_, _, _)
visit_sent_out(node, k, S) ==
    IF k > Len(node.children)
    THEN Done(Annotated(node, node.children, TyVoid, NoneV), S)
    ELSE LET child == node.children[k]
             Rest(e) ==
                 visit_sent_out(
                     [node EXCEPT !.children[k] = e.node], k + 1,
                     Tables(S.symbol_table,
                            IF e.type \in {TyInt, TyFloat, TyBool, TyString, TyError}
                            THEN e.errors
                            ELSE Append(e.errors,
                                        SemanticError("Tipo no imprimible en 'cout'",
                                                      <<e.type>>, child.line)),
                            e.xref, S.current_address))
         IN  IF child.node_type \in {"cout", "<<"} THEN visit_sent_out(node, k + 1, S)
             ELSE Rest(visit(child, S.symbol_table, S.errors, S.cross_reference_table))

\* the visit of the condition of an if, a while or an until, and the check
\* that it is a bool
Condition(cond_node, keyword, S) ==
    LET Checked(c) ==
            [node |-> c.node,
             S    |-> Tables(S.symbol_table,
                             IF c.type \in {TyBool, TyError} THEN c.errors
                             ELSE Append(c.errors,
                                         SemanticError("La condicion debe ser 'bool'",
                                                       <<keyword, c.type>>,
                                                       cond_node.line)),
                             c.xref, S.current_address)]
    IN  Checked(visit(cond_node, S.symbol_table, S.errors, S.cross_reference_table))

\* SemanticAnalyzer.visit_seleccion
visit_seleccion(node, path, S) ==
    IF Len(node.children) < 2 THEN Raised(node, S)
    ELSE LET Blocks(c) ==
                 LET n2 == [node EXCEPT !.children[2] = c.node]
                 IN  IF Len(node.children) < 4 THEN Raised(n2, c.S)
                     ELSE Defer(n2, path, c.S,
                                <<Call("visit", Append(path, 4), <<>>)>>
                                \o (IF Len(node.children) > 4
                                    THEN IF Len(node.children) < 6
                                         THEN <<Call("raise", path, <<>>)>>
                                         ELSE <<Call("visit", Append(path, 6), <<>>)>>
                                    ELSE <<>>),
                                TyVoid)
         IN  Blocks(Condition(node.children[2], <<"i", "f">>, S))

\* SemanticAnalyzer.visit_iteracion
visit_iteracion(node, path, S) ==
    IF Len(node.children) < 2 THEN Raised(node, S)
    ELSE IF Len(node.children[2].children) < 1 THEN Raised(node, S)
    ELSE LET Body(c) ==
                 LET n2 == [node EXCEPT !.children[2].children[1] = c.node]
                 IN  IF Len(node.children) < 3 THEN Raised(n2, c.S)
                     ELSE Defer(n2, path, c.S,
                                <<Call("visit", Append(path, 3), <<>>)>>, TyVoid)
         IN  Body(Condition(node.children[2].children[1],
                            <<"w", "h", "i", "l", "e">>, S))

\* SemanticAnalyzer.visit_repeticion up to the visit of the body
visit_repeticion(node, path, S) ==
    IF Len(node.children) < 2 THEN Raised(node, S)
    ELSE [node |-> node, S |-> S, raised |-> FALSE,
          push |-> <<Call("visit", Append(path, 2), <<>>),
                     Call("until", path, <<>>)>>]

\* SemanticAnalyzer.visit_repeticion after the visit of the body
visit_repeticion_until(node, S) ==
    IF Len(node.children) < 4 THEN Raised(node, S)
    ELSE IF Len(node.children[4].children) < 1 THEN Raised(node, S)
    ELSE LET Close(c) ==
                 Done(Annotated(node, [node.children EXCEPT ![4].children[1] = c.node],
                                TyVoid, NoneV), c.S)
         IN  Close(Condition(node.children[4].children[1],
                             <<"u", "n", "t", "i", "l">>, S))

\* visit_programa, visit_lista_declaracion and generic_visit: the children
\* in order, then the type the visitor returns
generic_visit(node, path, S) ==
    Defer(node, path, S,
          [k \in 1..Len(node.children) |-> Call("visit", Append(path, k), <<>>)],
          IF node.node_type \in {"programa", "lista_declaracion"}
          THEN TyVoid ELSE TyStructural)

\* SemanticAnalyzer.visit on the node of a statement: getattr(self,
\* 'visit_' + node_type, self.generic_visit)
visit_statement(node, path, S) ==
    LET nt == node.node_type
        Expression(e) ==
            Done(e.node, Tables(S.symbol_table, e.errors, e.xref, S.current_address))
    IN  CASE nt = "declaracion_variable" -> visit_declaracion_variable(node, 1, S)
          [] nt = "asignacion" -> visit_asignacion(node, S)
          [] nt = "sent_in" -> visit_sent_in(node, 1, S)
          [] nt = "sent_out" -> visit_sent_out(node, 1, S)
          [] nt = "seleccion" -> visit_seleccion(node, path, S)
          [] nt = "iteracion" -> visit_iteracion(node, path, S)
          [] nt = "repeticion" -> visit_repeticion(node, path, S)
          [] nt \in {"id", "numero", "bool", "cadena", "expresion_simple", "termino",
                     "factor", "expresion_relacional", "expresion_logica"} ->
               Expression(visit(node, S.symbol_table, S.errors,
                                S.cross_reference_table))
          [] OTHER -> generic_visit(node, path, S)

\* one entry of the list of visits, on the node it names
Run(call, node, S) ==
    CASE call.op = "visit" -> visit_statement(node, call.path, S)
      [] call.op = "until" -> visit_repeticion_until(node, S)
      [] call.op = "annotate" ->
           Done(Annotated(node, node.children, call.type, NoneV), S)
      [] OTHER -> Raised(node, S)

\* the longest list of statements drawn from the pool
MaxStmts == 3

N_x == <<"x">>

N_y == <<"y">>

N_u == <<"u">>

\* main { <statements> }, the k-th statement on line k + 1
Located(stmts) ==
    OnLine(Programa([k \in 1..Len(stmts) |-> OnLine(stmts[k], k + 1)]), 1)

\* declarations (x is declared int and float), assignments of a constant,
\* of an expression over the target, of a float and of a bool, a cin and a
\* cout
StatementPool ==
    {DeclaracionVariable(TyInt, N_x), DeclaracionVariable(TyFloat, N_x),
     DeclaracionVariable(TyBool, N_b),
     Asignacion(N_x, Num(1)), Incr(N_x),
     Asignacion(N_x, Numero(<<"1", ".", "5">>)), Asignacion(N_x, Id(N_b)),
     Asignacion(N_b, Relacional("<", Id(N_x), Num(1))),
     SentIn(N_x), SentOut(Id(N_x))}

\* the operands of the expressions: an int, a float and a bool variable, an
\* undeclared name and a literal
Operands == {Id(N_x), Id(N_y), Id(N_b), Id(N_u), Num(2)}

\* every expression with at most one operator over the operands
Expressions ==
    Operands
    \cup {Not(e) : e \in Operands}
    \cup {Simple("+", l, r) : l \in Operands, r \in Operands}
    \cup {Termino(op, l, r) : op \in {"*", "/", "%"}, l \in Operands, r \in Operands}
    \cup {Factor(l, r) : l \in Operands, r \in Operands}
    \cup {Relacional(op, l, r) : op \in {"<", "=="}, l \in Operands, r \in Operands}
    \cup {Logica("&&", l, r) : l \in Operands, r \in Operands}

\* int x; float y; bool b; x = 7; y = 1.5; b = true; <target> = <expression>;
ExpressionPrograms ==
    {Located(<<DeclaracionVariable(TyInt, N_x), DeclaracionVariable(TyFloat, N_y),
               DeclaracionVariable(TyBool, N_b),
               Asignacion(N_x, Num(7)), Asignacion(N_y, Numero(<<"1", ".", "5">>)),
               Asignacion(N_b, T_true), Asignacion(target, e)>>) :
         target \in {N_x, N_y, N_b}, e \in Expressions}

\* statements around blocks: an empty then, else or body, operators nested
\* in operators over an undeclared name, and a loop that reassigns
BlockPrograms ==
    LET x_pos == Relacional(">", Id(N_x), Num(0))
        intro == <<DeclaracionVariable(TyInt, N_x), Asignacion(N_x, Num(1))>>
        out   == <<SentOut(Id(N_x))>>
    IN  {Located(intro \o <<s>> \o out) :
            s \in {Seleccion(x_pos, <<>>, FALSE, <<>>),
                   Seleccion(x_pos, <<Incr(N_x)>>, FALSE, <<>>),
                   Seleccion(x_pos, <<Incr(N_x)>>, TRUE, <<>>),
                   Seleccion(x_pos, <<>>, TRUE, <<Incr(N_x)>>),
                   Seleccion(x_pos, <<Incr(N_x)>>, TRUE, <<SentIn(N_x)>>),
                   Iteracion(x_pos, <<>>),
                   Iteracion(x_pos, <<Incr(N_x)>>),
                   Repeticion(<<>>, x_pos),
                   Repeticion(<<Incr(N_x)>>, x_pos),
                   Seleccion(Relacional("<", Id(N_u), Num(1)), <<Incr(N_x)>>, FALSE, <<>>),
                   Seleccion(Id(N_x), <<Incr(N_x)>>, FALSE, <<>>),
                   Asignacion(N_x, Termino("*", Simple("+", Id(N_u), Num(1)), Num(2))),
                   Asignacion(N_x, Simple("+", Id(N_x), Not(Id(N_u))))}}

\* main { int a; bool b; a = b; }
ProgBoolToInt ==
    Located(<<DeclaracionVariable(TyInt, N_a), DeclaracionVariable(TyBool, N_b),
              Asignacion(N_a, Id(N_b))>>)

\* main { int x, y, x; float y; bool b; x = 1; }
ProgDeclarations ==
    Located(<<Node("declaracion_variable", TyInt, <<Id(N_x), Id(N_y), Id(N_x)>>),
              DeclaracionVariable(TyFloat, N_y), DeclaracionVariable(TyBool, N_b),
              Asignacion(N_x, Num(1))>>)

\* the ASTs given to the semantic analyzer
SemPrograms ==
    {Located(stmts) : stmts \in UNION {[1..k -> StatementPool] : k \in 0..MaxStmts}}
    \cup ExpressionPrograms \cup BlockPrograms
    \cup {ProgBoolToInt, ProgDeclarations}
    \cup {OnLine(p, 1) : p \in Programs}

\* SemanticAnalyzer(), load_ast and the call of analyze
InitSem ==
    /\ phase = "sem"
    /\ ast \in SemPrograms
    /\ BackIdle
    /\ code = <<>>
    /\ position = 0
    /\ line_num = 1
    /\ line_start = 0
    /\ tokens = <<>>
    /\ lex_errors = <<>>
    /\ symbol_table = EmptyDict
    /\ cross_reference_table = EmptyDict
    /\ current_address = 1
    /\ errors = <<>>
    /\ pending = <<Call("visit", <<>>, <<>>)>>
    /\ ParserIdle

\* analyze: the next visit of the traversal; an exception ends the traversal
\* with the diagnostic of the except clause of analyze
VisitPending ==
    /\ phase = "sem"
    /\ pending # <<>>
    /\ \E r \in {Run(Head(pending), NodeAt(ast, Head(pending).path),
                     Tables(symbol_table, errors, cross_reference_table,
                            current_address))} :
          /\ ast' = ReplaceAt(ast, Head(pending).path, r.node)
          /\ symbol_table' = r.S.symbol_table
          /\ cross_reference_table' = r.S.cross_reference_table
          /\ current_address' = r.S.current_address
          /\ errors' = IF r.raised
                       THEN Append(r.S.errors,
                                   SemanticError("Error inesperado durante el analisis",
                                                 <<>>, 0))
                       ELSE r.S.errors
          /\ pending' = IF r.raised THEN <<>> ELSE r.push \o Tail(pending)
    /\ UNCHANGED <<phase, back, code, position, line_num, line_start, tokens,
                   lex_errors, syntax>>

\* display_results after analyze has returned: the lines of every entry of
\* the cross-reference table are sorted and the table is written
DisplayResults ==
    /\ phase = "sem"
    /\ pending = <<>>
    /\ cross_reference_table' =
           [var \in DOMAIN cross_reference_table |->
               [cross_reference_table[var] EXCEPT
                   !.lines = SortSeq(@, LAMBDA a, b : a < b)]]
    /\ phase' = "saved"
    /\ UNCHANGED <<ast, back, code, position, line_num, line_start, tokens,
                   lex_errors, symbol_table, current_address, errors, pending,
                   syntax>>

NextSem ==
    \/ VisitPending
    \/ DisplayResults

SpecSem == InitSem /\ [][NextSem]_vars

\* int x; x = 1; while x < 3  x = x + 1;  end  cout << x;
ProgFoldLoop ==
    Located(<<DeclaracionVariable(TyInt, N_x), Asignacion(N_x, Num(1)),
              Iteracion(Relacional("<", Id(N_x), Num(3)), <<Incr(N_x)>>),
              SentOut(Id(N_x))>>)

\* int x, c, y; x = 0; cin >> c; if c > 0 then x = 1; end  y = 4 / x;
ProgFoldBranch ==
    Located(<<Node("declaracion_variable", TyInt, <<Id(N_x), Id(N_c), Id(N_y)>>),
              Asignacion(N_x, Num(0)), SentIn(N_c),
              Seleccion(Relacional(">", Id(N_c), Num(0)),
                        <<Asignacion(N_x, Num(1))>>, FALSE, <<>>),
              Asignacion(N_y, Termino("/", Num(4), Id(N_x)))>>)

\* int x, c, y; x = 1; cin >> c; if c > 0 then x = 0; end  y = 4 / x;
ProgFoldDivision ==
    Located(<<Node("declaracion_variable", TyInt, <<Id(N_x), Id(N_c), Id(N_y)>>),
              Asignacion(N_x, Num(1)), SentIn(N_c),
              Seleccion(Relacional(">", Id(N_c), Num(0)),
                        <<Asignacion(N_x, Num(0))>>, FALSE, <<>>),
              Asignacion(N_y, Termino("/", Num(4), Id(N_x)))>>)

\* int x, y; x = 2; y = x * 3; cout << y;
ProgFoldStraight ==
    Located(<<Node("declaracion_variable", TyInt, <<Id(N_x), Id(N_y)>>),
              Asignacion(N_x, Num(2)),
              Asignacion(N_y, Termino("*", Id(N_x), Num(3))),
              SentOut(Id(N_y))>>)

\* programs without semantic errors whose expressions are folded
FoldPrograms == {ProgFoldLoop, ProgFoldBranch, ProgFoldDivision, ProgFoldStraight}

\* semantic_analyzer.py main on <file>_ast.json
InitFold ==
    /\ phase = "sem"
    /\ ast \in FoldPrograms
    /\ BackIdle
    /\ code = <<>>
    /\ position = 0
    /\ line_num = 1
    /\ line_start = 0
    /\ tokens = <<>>
    /\ lex_errors = <<>>
    /\ symbol_table = EmptyDict
    /\ cross_reference_table = EmptyDict
    /\ current_address = 1
    /\ errors = <<>>
    /\ pending = <<Call("visit", <<>>, <<>>)>>
    /\ ParserIdle

\* intermediate_code_generator.py main: load_annotated_ast reads the file
\* <file>_annotated_ast.json that the semantic analyzer saved
LoadAnnotatedAst ==
    /\ phase = "saved"
    /\ phase' = "ast"
    /\ UNCHANGED <<ast, back, front>>

\* the semantic analyzer, the generator and the interpreter on one program
NextFold ==
    \/ VisitPending
    \/ DisplayResults
    \/ LoadAnnotatedAst
    \/ Generate
    \/ LoadIntermediateCode
    \/ ExecuteBegin
    \/ ExecuteIteration
    \/ ExecuteExit

SpecFold == InitFold /\ [][NextFold]_vars

-----------------------------------------------------------------------------
(* Properties                                                              *)

\* the statements of the program, in source order
TopLevel(tree) ==
    LET lists == {i \in 1..Len(tree.children) :
                     tree.children[i].node_type = "lista_declaracion"}
    IN  IF lists = {} THEN <<>> ELSE tree.children[Min(lists)].children

\* the generator state when the k-th statement of the program is visited
StateBefore(tree, k) ==
    VisitAll(SubSeq(TopLevel(tree), 1, k - 1), Emit(GenState(<<>>, 0, 0), CommentInicio))

\* the parts of a seleccion node, each found by its node type
PartsByType(children) ==
    [cond       |-> SeleccionParts(children).cond,
     then_block |-> LastOfType(children, "then_block"),
     else_block |-> LastOfType(children, "else_block")]

\* C1: for every seleccion statement of the program, the generated TAC
\* holds, from the place where the statement is lowered, the condition's
\* code, IF_FALSE t GOTO L_else, the TAC of every statement of then_block,
\* GOTO L_end, L_else:, the TAC of every statement of else_block, L_end:
C1_SeleccionLowering ==
    phase \in {"tac", "loaded", "running", "break", "done"} =>
        \A k \in 1..Len(TopLevel(ast)) :
            TopLevel(ast)[k].node_type = "seleccion" =>
                LET before == StateBefore(ast, k)
                    want   == EmitSeleccion(PartsByType(TopLevel(ast)[k].children),
                                            before).st.ins
                IN  /\ Len(instructions) >= Len(want)
                    /\ SubSeq(instructions, 1, Len(want)) = want

\* the 0-based index of the label line a jump instruction names, -1 when
\* the instruction is no jump or the label is not defined
TargetOf(instruction) ==
    LET h == Handler(instruction)
        l == IF h = "GOTO" /\ Len(Split(instruction)) >= 2 THEN Split(instruction)[2]
             ELSE IF h = "IF_FALSE" THEN IfFalseMatch(instruction).label
             ELSE <<>>
    IN  IF l \in DOMAIN labels THEN labels[l] ELSE 0 - 1

\* the value the test at 0-based index c evaluates under the current bindings
TestValue(c) ==
    Truthy(EvaluateExpression(IfFalseMatch(instructions[c + 1]).condition, variables).v)

\* the while loops of the loaded program, by 0-based index: s the line
\* L_start:, c the IF_FALSE that leaves the loop, g the GOTO L_start that
\* closes it; L_end: is the line g + 1
WhileLoops ==
    LET gotos == {g \in 0..(Len(instructions) - 1) :
                     /\ Handler(instructions[g + 1]) = "GOTO"
                     /\ TargetOf(instructions[g + 1]) \in 0..(g - 1)}
        tests == {c \in 0..(Len(instructions) - 1) :
                     Handler(instructions[c + 1]) = "IF_FALSE"}
    IN  {[s |-> TargetOf(instructions[cg[2] + 1]), c |-> cg[1], g |-> cg[2]] :
            cg \in {x \in tests \X gotos :
                        /\ TargetOf(instructions[x[2] + 1]) < x[1]
                        /\ x[1] < x[2]
                        /\ TargetOf(instructions[x[1] + 1]) = x[2] + 1}}

\* a step of the fetch loop that leaves the interpreter running
LoopStep == phase = "running" /\ phase' = "running" /\ iteration_count' # iteration_count

\* C2: in a run of the generated TAC every while loop is entered only
\* through its test, with the condition true; a true test continues with
\* the body, the end of the body returns to L_start so that the condition
\* is evaluated again before the next iteration, and a false test
\* continues at L_end, outside the body.  For the program
\* i = 0; while i < 3 cout << i; i = i + 1; end  the output log is 0, 1, 2.
C2_WhileSemantics ==
    [][ /\ LoopStep =>
             \A w \in WhileLoops :
                 /\ pc = w.c => pc' = IF TestValue(w.c) THEN w.c + 1 ELSE w.g + 1
                 /\ pc = w.g => pc' = w.s
                 /\ pc \in w.s..(w.c - 1) => pc' \in (pc + 1)..w.c
                 /\ (pc' \in (w.c + 1)..w.g /\ pc \notin (w.c + 1)..w.g)
                        => (pc = w.c /\ TestValue(w.c))
        /\ (phase' = "done" /\ ast = ProgWhile)
               => output' = <<<<"0">>, <<"1">>, <<"2">>>>
      ]_vars

\* a while loop has run its body and is left on a false test
C2_Witness ==
    /\ phase = "running"
    /\ \E w \in WhileLoops : pc = w.g + 1 /\ ~TestValue(w.c)
    /\ Len(output) >= 3

\* the do/until loops of the loaded program, by 0-based index: s the line
\* L_start:, c the IF_FALSE that jumps back to it
DoLoops ==
    {[s |-> TargetOf(instructions[c + 1]), c |-> c] :
        c \in {x \in 0..(Len(instructions) - 1) :
                   /\ Handler(instructions[x + 1]) = "IF_FALSE"
                   /\ TargetOf(instructions[x + 1]) \in 0..(x - 1)}}

\* C3: in a run of the generated TAC every do/until loop is entered at
\* L_start, so that the body runs before the first test; the test after the
\* body jumps back to L_start when the condition is false and falls out of
\* the loop when it is true, and the loop is left in no other way.  For the
\* program  i = 0; do cout << i; i = i + 1; until i == 2;  the output log
\* is 0, 1.
C3_DoUntilSemantics ==
    [][ /\ LoopStep =>
             \A d \in DoLoops :
                 /\ pc = d.c => pc' = IF TestValue(d.c) THEN d.c + 1 ELSE d.s
                 /\ (pc' \in d.s..d.c /\ pc \notin d.s..d.c) => pc' = d.s
                 /\ (pc \in d.s..d.c /\ pc' \notin d.s..d.c)
                        => (pc = d.c /\ TestValue(d.c))
        /\ (phase' = "done" /\ ast = ProgDo) => output' = <<<<"0">>, <<"1">>>>
      ]_vars

\* a do/until loop has repeated its body and is left on a true test
C3_Witness ==
    /\ phase = "running"
    /\ \E d \in DoLoops : pc = d.c + 1 /\ TestValue(d.c)
    /\ Len(output) >= 2

\* the label a GOTO or IF_FALSE instruction names
JumpLabel(instruction) ==
    IF Handler(instruction) = "GOTO" THEN Slice(instruction, Len(KwGOTO) + 1, Len(instruction))
    ELSE LET at == {i \in 1..Len(instruction) :
                       i + 4 <= Len(instruction)
                       /\ SubSeq(instruction, i, i + 4) = KwGOTO \o Sp}
         IN  IF at = {} THEN <<>>
             ELSE Slice(instruction, Max(at) + 4, Len(instruction))

\* the 1-based indices of the jumps of the generated program
Jumps == {i \in 1..Len(instructions) : Handler(instructions[i]) \in {"GOTO", "IF_FALSE"}}

\* C4: label closure.  In the generated TAC program each label named by a
\* GOTO L or an IF_FALSE _ GOTO L occurs as the line L: exactly once.
C4_LabelClosure ==
    phase \in {"tac", "loaded", "running", "break", "done"} =>
        \A i \in Jumps :
            Cardinality({j \in 1..Len(instructions) :
                            instructions[j] = JumpLabel(instructions[i]) \o <<":">>}) = 1

\* the TAC of a program with nested seleccion, iteracion and repeticion nodes
C4_Witness ==
    /\ phase = "tac"
    /\ ast = ProgNested
    /\ Cardinality(Jumps) >= 8
    /\ label_counter >= 9

\* the name an instruction assigns: the left side of an assignment, the
\* variable of a READ; <<>> for the other instructions
DestOf(instruction) ==
    CASE Handler(instruction) = "ASSIGN" -> Strip(SplitFirstEq(instruction)[1])
      [] Handler(instruction) = "READ" /\ Len(Split(instruction)) >= 2 ->
             Split(instruction)[2]
      [] OTHER -> <<>>

\* the words an instruction reads: those right of the = of an assignment,
\* those after the keyword of WRITE and IF_FALSE
OperandsOf(instruction) ==
    LET words == Split(instruction)
    IN  CASE Handler(instruction) = "ASSIGN" ->
                 {words[k] : k \in {k \in 1..Len(words) : k >= 3}}
          [] Handler(instruction) \in {"WRITE", "IF_FALSE"} ->
                 {words[k] : k \in {k \in 1..Len(words) : k >= 2}}
          [] OTHER -> {}

\* the names new_temp has handed out
TempNames == {<<"t">> \o NatToStr(k) : k \in 0..(temp_counter - 1)}

\* C5: in the generated TAC program each temporary tN is the destination of
\* exactly one instruction, and every instruction that has tN as an operand
\* comes after that instruction; user variables may be named tN as well.
C5_TempDefinedOnce ==
    phase \in {"tac", "loaded", "running", "break", "done"} =>
        \A t \in TempNames :
            LET defs == {i \in 1..Len(instructions) : DestOf(instructions[i]) = t}
            IN  /\ Cardinality(defs) = 1
                /\ \A i \in 1..Len(instructions) :
                       t \in OperandsOf(instructions[i]) => \A d \in defs : d < i

\* C6: execute() terminates.  The fetch loop never performs more than
\* max_iterations iterations and every iteration uses up one unit of that
\* budget, so the loop cannot go on for ever; when the budget is used up
\* while the program is still running, execute() prints the iteration-limit
\* diagnostic and stops without an exception, and the variable bindings and
\* the output log stay as they were.
C6_BudgetedTermination ==
    [][ /\ iteration_count' <= max_iterations
        /\ (phase = "running" /\ phase' = "running")
               => iteration_count' = iteration_count + 1
        /\ (phase = "running" /\ iteration_count >= max_iterations)
               => /\ phase' = "done"
                  /\ stderr' = Append(stderr, LimitMsg)
                  /\ \A k \in 1..Len(stderr') : stderr'[k] # RaisedMsg
                  /\ variables' = variables
                  /\ output' = output
                  /\ pc' = pc
      ]_vars

\* a loop whose condition never becomes false has been cut off by the budget
C6_Witness ==
    /\ phase = "done"
    /\ ast = ProgForever
    /\ iteration_count = max_iterations
    /\ pc < Len(instructions)
    /\ stderr = <<LimitMsg>>
    /\ output = <<<<"g", "o">>>>
    /\ variables[N_i].n > 1000

C8_TruncatedDivision ==
    (arith.done /\ arith.op = "/" /\ arith.b # 0) =>
        /\ arith.interp = IntV(TruncDiv(arith.a, arith.b))
        /\ arith.folded = IntV(TruncDiv(arith.a, arith.b))

\* the instruction at 0-based index k is  dest = left op right  with op one
\* of / and %, and right evaluates to zero under the bindings vs
DividesByZero(k, vs) ==
    /\ k \in 0..(Len(instructions) - 1)
    /\ Handler(instructions[k + 1]) = "ASSIGN"
    /\ LET words == Split(instructions[k + 1])
       IN  /\ Len(words) = 5
           /\ words[4] \in {<<"/">>, <<"%">>}
           /\ LET r == EvaluateExpression(words[5], vs).v
              IN  IsNum(r) /\ r.n = 0

\* C9: when the interpreter executes  dest = left / right  or
\* dest = left % right  and right evaluates to zero, it prints the
\* division (or modulo) by zero diagnostic, binds dest to the integer 0,
\* leaves the other bindings and the output log as they are, and goes on
\* with the next instruction.
C9_DivisionByZero ==
    [][ (phase = "running" /\ LoopCondition /\ DividesByZero(pc, variables)) =>
            LET words == Split(instructions[pc + 1])
            IN  /\ stderr' = Append(stderr, IF words[4] = <<"/">> THEN DivZeroMsg
                                            ELSE ModZeroMsg)
                /\ variables' = DictSet(variables, words[1], IntV(0))
                /\ output' = output
                /\ pc' = pc + 1
                /\ phase' = "running"
      ]_vars

\* a division by zero has just been executed
C9_Witness ==
    /\ phase = "running"
    /\ pc >= 1
    /\ stderr # <<>>
    /\ stderr[Len(stderr)] = DivZeroMsg
    /\ Handler(instructions[pc]) = "ASSIGN"
    /\ Split(instructions[pc])[4] = <<"/">>
    /\ variables[Split(instructions[pc])[1]] = IntV(0)
    /\ variables[N_b] = IntV(0)

\* C10: for every input line, READ n binds n and execution continues with
\* the next instruction; the value bound is an integer when the line parses
\* as an integer, a float when the line holds a dot and parses as a number,
\* and the raw string otherwise.
C10_ReadBinds ==
    [][ (phase = "running" /\ LoopCondition /\ Handler(Fetched) = "READ") =>
            LET name == Split(Fetched)[2]
                line == stdin'[rpos + 1]
            IN  /\ rpos' = rpos + 1
                /\ phase' = "running"
                /\ pc' = pc + 1
                /\ name \in DOMAIN variables'
                /\ ~line.eof =>
                       variables'[name] =
                           IF PyInt(line.s).ok THEN IntV(PyInt(line.s).n)
                           ELSE IF HasChar(line.s, ".") /\ PyFloat(line.s).ok
                                THEN FloatV(PyFloat(line.s).n, PyFloat(line.s).d)
                                ELSE StrV(line.s)
      ]_vars

\* C11: a source text that consists of one operator lexeme (!=, <<, >>, <=,
\* >=, ==, &&, ||, ++, --) is emitted by the lexer as exactly one token,
\* whose value is the whole lexeme: no operator is split into two tokens.
C11_OperatorTokens ==
    (/\ phase = "lexed"
     /\ code \in {<<"!", "=">>, <<"<", "<">>, <<">", ">">>, <<"<", "=">>,
                  <<">", "=">>, <<"=", "=">>, <<"&", "&">>, <<"|", "|">>,
                  <<"+", "+">>, <<"-", "-">>})
    => (Len(tokens) = 1 /\ tokens[1].value = code)

\* the nodes of a list of trees in the order a traversal meets them
RECURSIVE Preorder(_)
Preorder(nodes) ==
    IF nodes = <<>> THEN <<>>
    ELSE <<Head(nodes)>> \o Preorder(Head(nodes).children) \o Preorder(Tail(nodes))

\* visit has returned for the node
IsVisited(node) == "semantic_value" \in DOMAIN node

\* the node without the keys the analyzer adds
RECURSIVE Unannotated(_)
Unannotated(node) ==
    [node_type |-> node.node_type, value |-> node.value, line |-> node.line,
     children |-> [k \in 1..Len(node.children) |-> Unannotated(node.children[k])]]

\* the diagnostics with a given message among errors[from + 1 ..]
Reports(errs, from, msg) == {k \in (from + 1)..Len(errs) : errs[k].msg = msg}

\* C12: the visit of an assignment adds a type-mismatch diagnostic exactly
\* when the declared type of the target and the type of the right-hand side
\* are both not error, differ, and are not (float, int); so an int
\* expression assigned to a float variable adds none and a float expression
\* assigned to an int variable always adds one.
C12_AssignmentCompatibility ==
    [][ (/\ phase = "sem" /\ pending # <<>> /\ Head(pending).op = "visit"
         /\ NodeAt(ast, Head(pending).path).node_type = "asignacion")
        => LET name    == NodeAt(ast, Head(pending).path).children[1].value
               lhs     == IF name \in DOMAIN symbol_table
                          THEN symbol_table[name].type ELSE TyError
               rhs     == NodeAt(ast', Head(pending).path).children[2].semantic_type
               reports == Reports(errors', Len(errors),
                                  "Incompatibilidad de tipos: No se puede asignar")
           IN  /\ Cardinality(reports) =
                      IF /\ lhs # TyError /\ rhs # TyError /\ lhs # rhs
                         /\ ~(lhs = TyFloat /\ rhs = TyInt)
                      THEN 1 ELSE 0
               /\ \A k \in reports : errors'[k].args = <<rhs, lhs>>
               /\ (lhs = TyFloat /\ rhs = TyInt) => reports = {}
               /\ (lhs = TyInt /\ rhs = TyFloat) => reports # {}
      ]_vars

\* an int expression has been assigned to a float variable and the error
\* list holds no type mismatch
C12_Witness ==
    /\ phase = "saved"
    /\ \E k \in 1..Len(Preorder(<<ast>>)) :
          LET n == Preorder(<<ast>>)[k]
          IN  /\ n.node_type = "asignacion" /\ IsVisited(n)
              /\ n.children[1].semantic_type = TyFloat
              /\ n.children[2].semantic_type = TyInt
    /\ Reports(errors, 0, "Incompatibilidad de tipos: No se puede asignar") = {}

\* C13: for main { int a; bool b; a = b; } the error list of the semantic
\* stage holds exactly one diagnostic, the type mismatch of assigning bool
\* to int.
C13_OnlyTypeMismatch ==
    (phase = "saved" /\ Unannotated(ast) = ProgBoolToInt)
    => /\ Len(errors) = 1
       /\ errors[1].msg = "Incompatibilidad de tipos: No se puede asignar"
       /\ errors[1].args = <<TyBool, TyInt>>

\* C13 (as the analyzer behaves): for main { int a; bool b; a = b; } the error
\* list holds exactly two diagnostics, both on the line of the assignment:
\* first the read of b before its initialisation, then the one type mismatch
\* of assigning bool to int.
C13_UninitialisedThenMismatch ==
    (phase = "saved" /\ Unannotated(ast) = ProgBoolToInt)
    => /\ Len(errors) = 2
       /\ errors[1].msg = "Variable usada antes de ser inicializada"
       /\ errors[1].args = <<<<"b">>>>
       /\ errors[2].msg = "Incompatibilidad de tipos: No se puede asignar"
       /\ errors[2].args = <<TyBool, TyInt>>
       /\ errors[1].line = errors[2].line

\* the analysis of main { int a; bool b; a = b; } has ended
C13_Witness == phase = "saved" /\ Unannotated(ast) = ProgBoolToInt

\* C14: after analyze, every id node whose semantic_type is not error names
\* an entry of the symbol table whose type is that semantic_type.
C14_IdentifierHome ==
    phase = "saved"
    => \A k \in 1..Len(Preorder(<<ast>>)) :
          LET n == Preorder(<<ast>>)[k]
          IN  (/\ n.node_type = "id" /\ "semantic_type" \in DOMAIN n
               /\ n.semantic_type # TyError)
              => /\ n.value \in DOMAIN symbol_table
                 /\ symbol_table[n.value].type = n.semantic_type

Arithmetic == {"expresion_simple", "termino", "factor"}

Operators == Arithmetic \cup {"expresion_relacional", "expresion_logica"}

\* an operand of the node has the type error
HasErrorOperand(n) ==
    \E c \in 1..Len(n.children) :
        "semantic_type" \in DOMAIN n.children[c] /\ n.children[c].semantic_type = TyError

RECURSIVE DeclaredIds(_)
DeclaredIds(nodes) ==
    IF nodes = <<>> THEN <<>>
    ELSE (IF Head(nodes).node_type = "declaracion_variable" /\ IsVisited(Head(nodes))
          THEN [k \in 1..Len(Head(nodes).children) |->
                   [name |-> Head(nodes).children[k].value,
                    type |-> Head(nodes).value,
                    line |-> Head(nodes).children[k].line]]
          ELSE <<>>) \o DeclaredIds(Tail(nodes))

\* the positions in a list of declared identifiers that declare a new name
Firsts(D) == {k \in 1..Len(D) : \A j \in 1..(k - 1) : D[j].name # D[k].name}

\* C16: the tables hold exactly the names declared so far, each with the
\* type and line of its first declaration and the address that is its rank
\* among the first declarations (1..n, no gap after a duplicate); every later
\* declaration of a name has added one duplicate-identifier error; and the
\* visit of a declaration leaves the entries of the names already declared
\* as they are and enters a new name with is_initialized false and no
\* const_value.
C16_FirstDeclarationWins ==
    /\ [](LET Tables16(D, F) ==
                /\ DOMAIN symbol_table = {D[k].name : k \in F}
                /\ DOMAIN cross_reference_table = {D[k].name : k \in F}
                /\ \A k \in F :
                      /\ symbol_table[D[k].name].type = D[k].type
                      /\ cross_reference_table[D[k].name].type = D[k].type
                      /\ cross_reference_table[D[k].name].lines[1] = D[k].line
                      /\ cross_reference_table[D[k].name].address =
                             Cardinality({j \in F : j <= k})
                /\ current_address = Cardinality(F) + 1
                /\ Cardinality(Reports(errors, 0, "Identificador duplicado")) =
                       Len(D) - Cardinality(F)
            Holds16(D) == Tables16(D, Firsts(D))
        IN  Holds16(DeclaredIds(Preorder(<<ast>>))))
    /\ [][ (/\ phase = "sem" /\ pending # <<>> /\ Head(pending).op = "visit"
            /\ NodeAt(ast, Head(pending).path).node_type = "declaracion_variable")
           => /\ \A n \in DOMAIN symbol_table :
                    /\ n \in DOMAIN symbol_table'
                    /\ symbol_table'[n] = symbol_table[n]
                    /\ cross_reference_table'[n] = cross_reference_table[n]
              /\ \A n \in DOMAIN symbol_table' \ DOMAIN symbol_table :
                    /\ ~symbol_table'[n].is_initialized
                    /\ symbol_table'[n].const_value = NoneV
         ]_vars

\* x has been declared int and then float, the first declaration has won,
\* and the name declared after the duplicate has the address 2
C16_Witness ==
    /\ phase = "saved"
    /\ \E k \in 1..Len(errors) :
          errors[k].msg = "Identificador duplicado" /\ errors[k].args = <<N_x>>
    /\ N_x \in DOMAIN symbol_table /\ N_b \in DOMAIN cross_reference_table
    /\ symbol_table[N_x].type = TyInt
    /\ cross_reference_table[N_x].address = 1
    /\ cross_reference_table[N_b].address = 2
    /\ \E k \in 1..Len(DeclaredIds(Preorder(<<ast>>))) :
          LET d == DeclaredIds(Preorder(<<ast>>))[k]
          IN  d.name = N_x /\ d.type = TyFloat

\* C17: when the cross-reference table is serialised, the lines of every
\* entry are ascending and hold no line number twice.
C17_SortedSet ==
    phase = "saved"
    => \A name \in DOMAIN cross_reference_table :
          \A i, j \in 1..Len(cross_reference_table[name].lines) :
              i < j => cross_reference_table[name].lines[i]
                       < cross_reference_table[name].lines[j]

\* C18: at every point of the traversal, a symbol with a const_value has
\* been the target of no visited cin, and every visited assignment to it
\* had a right-hand side with a value (the assignments and cins are those
\* visited while the name is declared).
C18_ConstOnlyIfAlwaysStatic ==
    \A name \in DOMAIN symbol_table :
        symbol_table[name].const_value # NoneV
        => \A k \in 1..Len(Preorder(<<ast>>)) :
              LET n == Preorder(<<ast>>)[k]
              IN  /\ (/\ n.node_type = "asignacion" /\ IsVisited(n) /\ n.value = name
                      /\ n.children[1].semantic_type # TyError)
                     => n.semantic_value # NoneV
                  /\ (n.node_type = "sent_in" /\ IsVisited(n))
                     => \A c \in 1..Len(n.children) :
                            ~(/\ n.children[c].node_type = "id"
                              /\ n.children[c].value = name
                              /\ n.children[c].semantic_type # TyError)

\* C18 (as the analyzer behaves): the const_value of a symbol is what its
\* latest write left: the visit of an assignment to a declared name sets it
\* to the value of the right-hand side (none when that has no value), the
\* visit of a cin sets the const_value of each declared target to none, and
\* no other visit changes the const_value of a declared name.
C18_ConstIsLatestWrite ==
    [][ (phase = "sem" /\ pending # <<>>)
        => LET stmt == NodeAt(ast', Head(pending).path)
               visiting == Head(pending).op = "visit"
               Targets == IF visiting /\ stmt.node_type = "sent_in"
                          THEN {stmt.children[c].value : c \in
                                   {c \in 1..Len(stmt.children) :
                                       stmt.children[c].node_type = "id"}}
                          ELSE {}
           IN  \A x \in DOMAIN symbol_table :
                  symbol_table'[x].const_value =
                      IF visiting /\ stmt.node_type = "asignacion" /\ stmt.value = x
                      THEN stmt.children[2].semantic_value
                      ELSE IF x \in Targets THEN NoneV
                      ELSE symbol_table[x].const_value
      ]_vars

\* x has the const_value 1 of its latest assignment although a cin of x was
\* visited before
C18_Witness ==
    /\ phase = "saved"
    /\ N_x \in DOMAIN symbol_table
    /\ symbol_table[N_x].const_value = IntV(1)
    /\ \E k \in 1..Len(Preorder(<<ast>>)) :
          LET n == Preorder(<<ast>>)[k]
          IN  /\ n.node_type = "sent_in" /\ IsVisited(n)
              /\ n.children[3].value = N_x
              /\ n.children[3].semantic_type # TyError

\* a visited assignment or cin in the tree has written the name while it was
\* declared
Written(tree, name) ==
    \E k \in 1..Len(Preorder(<<tree>>)) :
        LET n == Preorder(<<tree>>)[k]
        IN  /\ n.node_type \in {"asignacion", "sent_in"} /\ IsVisited(n)
            /\ \E c \in 1..Len(n.children) :
                  /\ n.children[c].node_type = "id" /\ n.children[c].value = name
                  /\ "semantic_value" \notin DOMAIN n.children[c]
                  /\ n.children[c].semantic_type # TyError

\* C19: in the visit of a statement or of an until condition, every read of
\* a declared name gets the declared type, never error; the reads of the
\* name add one used-before-initialisation diagnostic each when no
\* assignment to the declared name and no cin of it was visited before the
\* statement, and none otherwise.  The reads of x in x = <expression> are
\* judged by the state before the assignment, which then marks x initialised.
C19_UseBeforeInit ==
    [][ (/\ phase = "sem" /\ pending # <<>>
         /\ Head(pending).op \in {"visit", "until"})
        => LET before == Preorder(<<NodeAt(ast, Head(pending).path)>>)
               after  == Preorder(<<NodeAt(ast', Head(pending).path)>>)
               stmt   == NodeAt(ast', Head(pending).path)
               NewReads(x) ==
                   {k \in 1..Len(after) :
                       /\ after[k].node_type = "id" /\ after[k].value = x
                       /\ IsVisited(after[k]) /\ ~IsVisited(before[k])}
               Uninit(x) ==
                   {e \in (Len(errors) + 1)..Len(errors') :
                       /\ errors'[e].msg = "Variable usada antes de ser inicializada"
                       /\ errors'[e].args = <<x>>}
           IN  \A x \in DOMAIN symbol_table :
                  /\ \A k \in NewReads(x) :
                        /\ after[k].semantic_type = symbol_table[x].type
                        /\ after[k].semantic_type # TyError
                  /\ Cardinality(Uninit(x)) =
                        IF Written(ast, x) THEN 0 ELSE Cardinality(NewReads(x))
                  /\ (stmt.node_type = "asignacion" /\ stmt.value = x)
                     => symbol_table'[x].is_initialized
      ]_vars

\* main { int x; x = x + 1; cout << x; } has been analysed: the read of x in
\* the assignment was reported, the read in the cout was not, and both have
\* the type int
C19_Witness ==
    /\ phase = "saved"
    /\ Unannotated(ast) = Located(<<DeclaracionVariable(TyInt, N_x), Incr(N_x),
                                    SentOut(Id(N_x))>>)
    /\ Cardinality(Reports(errors, 0, "Variable usada antes de ser inicializada")) = 1
    /\ \A k \in 1..Len(Preorder(<<ast>>)) :
          LET n == Preorder(<<ast>>)[k]
          IN  (n.node_type = "id" /\ IsVisited(n)) => n.semantic_type = TyInt

\* C20: the analysis of a program ends with every statement visited and
\* with no unexpected-error diagnostic, also when a then or else block or
\* the body of a loop is empty.
C20_EveryStatementVisited ==
    phase = "saved"
    => /\ Reports(errors, 0, "Error inesperado durante el analisis") = {}
       /\ \A k \in 1..Len(Preorder(<<ast>>)) :
             Preorder(<<ast>>)[k].node_type
                 \in {"declaracion_variable", "asignacion", "seleccion",
                      "iteracion", "repeticion", "sent_in", "sent_out"}
             => IsVisited(Preorder(<<ast>>)[k])

\* the digits and the dot of a lexeme, when it is digits and a dot followed
\* by anything: the empty text otherwise
DigitsAndDot(value) ==
    IF RunLen(value, 1, "d") > 0 /\ At(value, RunLen(value, 1, "d") + 1, <<".">>)
    THEN SubSeq(value, 1, RunLen(value, 1, "d") + 1)
    ELSE <<>>

\* C26: a PARTIAL_FLOAT token is digits and a dot and nothing more: the
\* lexer reports it as incomplete and scans what follows the dot again, so
\* 12.abc ends as the token 12. and the IDENTIFIER abc.
C26_SuffixRescanned ==
    phase = "lexed"
    => /\ \A k \in 1..Len(tokens) :
             tokens[k].token_type = "PARTIAL_FLOAT"
             => tokens[k].value = DigitsAndDot(tokens[k].value)
       /\ code = <<"1", "2", ".", "a", "b", "c">>
          => /\ Len(tokens) = 2
             /\ tokens[2].token_type = "IDENTIFIER"
             /\ tokens[2].value = <<"a", "b", "c">>

\* C26 (as the lexer behaves): when digits and a dot that no digit follows
\* stand at the position of the scanner, the next match is one
\* PARTIAL_FLOAT token that holds the digits, the dot and every letter,
\* digit and underscore after the dot; it adds one incomplete-number error
\* on that lexeme and the scanner resumes after the suffix.
C26_SuffixSwallowed ==
    [][ (/\ phase = "lex" /\ position < Len(code)
         /\ FindCommentRegions(code, 1) = {}
         /\ RunLen(code, position + 1, "d") > 0
         /\ At(code, position + 1 + RunLen(code, position + 1, "d"), <<".">>)
         /\ RunLen(code, position + 2 + RunLen(code, position + 1, "d"), "d") = 0)
        => LET d   == RunLen(code, position + 1, "d")
               w   == RunLen(code, position + d + 2, "w")
               lex == SubSeq(code, position + 1, position + d + 1 + w)
           IN  /\ position' = position + d + 1 + w
               /\ tokens' = Append(tokens, Token("PARTIAL_FLOAT", lex, line_num,
                                                 position - line_start + 1))
               /\ lex_errors' =
                     Append(lex_errors,
                            LexicalError("Incomplete floating-point number", lex,
                                         line_num, position - line_start + 1))
      ]_vars

\* 12.abc has been scanned to one token and one error
C26_Witness ==
    /\ phase = "lexed"
    /\ code = <<"1", "2", ".", "a", "b", "c">>
    /\ Len(tokens) = 1 /\ tokens[1].token_type = "PARTIAL_FLOAT"
    /\ tokens[1].value = code
    /\ Len(lex_errors) = 1

\* C27: the lexer reports an unclosed string exactly for the strings that
\* are not closed: a text with a double quote that no quote closes before the
\* end of its line has an Unclosed string error, and a closed string literal
\* adds no lexical error, also when it holds escaped quotes.
C27_UnclosedExactly ==
    phase = "lexed"
    => /\ code \in {<<"\"", "a", "b", "c">>,
                    <<"\"", "a", "b", "\"", " ", "\"", "c">>}
          => \E k \in 1..Len(lex_errors) :
                 lex_errors[k].description = "Unclosed string"
       /\ code = <<"\"", "a", "\\", "\"", "b", "\"">> => lex_errors = <<>>

\* C29: the iteration-limit diagnostic is written only by a run that the
\* budget cut off: the loop was left with instructions still to fetch, not
\* by HALT and not by running past the last instruction.
C29_LimitOnlyWhenCutOff ==
    [][ (/\ phase' = "done" /\ Len(stderr') = Len(stderr) + 1
         /\ stderr'[Len(stderr')] = LimitMsg)
        => (phase = "running" /\ pc < Len(instructions))
      ]_vars

\* C28: an instruction <dest> = <rhs> is executed as an assignment whatever
\* the spelling of dest: the step binds dest to the value of rhs, leaves
\* every other binding and the output log as they are and reads no input.
C28_AssignmentWhateverTheName ==
    [][ (/\ phase = "running" /\ LoopCondition /\ ~IsSkipped(Fetched)
         /\ Len(Split(Fetched)) >= 3 /\ Split(Fetched)[2] = <<"=">>)
        => /\ variables' =
                 DictSet(variables, Split(Fetched)[1],
                         EvaluateExpression(Strip(SplitFirstEq(Fetched)[2]), variables).v)
           /\ rpos' = rpos
           /\ output' = output
      ]_vars

\* the operator nodes of the program whose TAC is the instruction t = l op r
FoldedAs(words) ==
    {k \in 1..Len(Preorder(<<ast>>)) :
        LET n == Preorder(<<ast>>)[k]
        IN  /\ n.node_type \in Operators
            /\ Len(n.children) = 2
            /\ n.value = words[4]
            /\ n.children[1].children = <<>> /\ n.children[1].value = words[3]
            /\ n.children[2].children = <<>> /\ n.children[2].value = words[5]}

\* C30: constant folding is sound: each time the interpreter evaluates
\* t = l op r, the temporary receives the semantic_value the analyzer
\* attached to the node l op r, and where the analyzer reported a
\* compile-time division by zero the evaluation divides by zero.
C30_FoldingSound ==
    [][ (/\ phase = "running" /\ LoopCondition /\ ~IsSkipped(Fetched)
         /\ Len(Split(Fetched)) = 5 /\ Split(Fetched)[2] = <<"=">>)
        => \A k \in FoldedAs(Split(Fetched)) :
              LET n == Preorder(<<ast>>)[k]
              IN  /\ (IsVisited(n) /\ n.semantic_value # NoneV)
                     => PyEq(variables'[Split(Fetched)[1]], n.semantic_value)
                  /\ (\E e \in 1..Len(errors) :
                         /\ errors[e].msg = DivZeroStaticMsg
                         /\ errors[e].line = n.line)
                     => stderr' = Append(stderr, DivZeroMsg)
      ]_vars

\* the analyzer with no error yet and the k-th token current
SelfAt(k) == Self(syn_tokens, k - 1, <<>>, {}, FALSE)

\* a number or a name
IsAtom(token) == token.token_type \in {"INT", "FLOAT", "IDENTIFIER"}

\* the tokens k .. k + 4 are a ^ b ^ c, with no ^ after them
IsPowerChain(k) ==
    /\ k + 4 <= Len(syn_tokens)
    /\ \A d \in {0, 2, 4} : IsAtom(syn_tokens[k + d])
    /\ \A d \in {1, 3} : syn_tokens[k + d].value = <<"^">>
                         /\ syn_tokens[k + d].token_type = "ARITH_OP"
    /\ (k + 5 <= Len(syn_tokens) => syn_tokens[k + 5].value # <<"^">>)

\* C21: the exponent operator is right-associative: wherever the tokens are
\* a ^ b ^ c, parse_factor builds factor(^, a, factor(^, b, c)).
C21_RightAssociative ==
    \A k \in 1..Len(syn_tokens) :
        IsPowerChain(k)
        => LET Shape(n) ==
                   /\ n.node_type = "factor"
                   /\ Len(n.children) = 2
                   /\ n.children[1].children = <<>>
                   /\ n.children[1].value = syn_tokens[k].value
                   /\ n.children[2].node_type = "factor"
                   /\ Len(n.children[2].children) = 2
                   /\ n.children[2].children[1].value = syn_tokens[k + 2].value
                   /\ n.children[2].children[2].value = syn_tokens[k + 4].value
           IN  Shape(parse_factor(SelfAt(k)).node)

\* the tokens that start a statement or a declaration
StatementStarts == {KwIf, KwWhile, KwDo, KwCin, KwCout} \cup TypeNames

\* the index of the first synchronization token from the k-th on, or 0
FirstSync(k) ==
    LET stops == {j \in k..Len(syn_tokens) : syn_tokens[j].value \in sync_tokens}
    IN  IF stops = {} THEN 0 ELSE CHOOSE j \in stops : \A h \in stops : j <= h

\* the statement x 1 with no operator, then a well-formed if and a cout
ProgRecovery ==
    OneLine(InMain(<<T_x, T_1, Kw(KwIf), T_a, Kw(KwThen), T_y, T_assign, T_1, T_semi,
                     Kw(KwEnd), Kw(KwCout), Lexeme("STREAM_OP", <<"<", "<">>), T_y,
                     T_semi>>))

\* C22: recovery that stops at a token starting a statement leaves that
\* token current, so the statement it starts is parsed intact: the if that
\* follows the broken statement of ProgRecovery is in the AST.
C22_ResumesAtStatement ==
    /\ \A k \in 1..Len(syn_tokens) :
           (FirstSync(k) # 0 /\ syn_tokens[FirstSync(k)].value \in StatementStarts)
           => synchronize(SelfAt(k), <<";">>).current_token_index = FirstSync(k) - 1
    /\ (phase = "parsed" /\ syn_tokens = ProgRecovery)
       => \E n \in 1..Len(Preorder(<<ast>>)) :
              Preorder(<<ast>>)[n].node_type = "seleccion"

\* C23: the error list never holds two entries with the same line, column
\* and message.
C23_NoDuplicateErrors ==
    \A i, j \in 1..Len(syn_errors) : i < j => syn_errors[i] # syn_errors[j]

\* the body of a loop iteration, run with the k-th token current, moves the
\* current token forward and meets no loop that never ends
Consumes(k) ==
    LET Moved(r) == r.self.current_token_index > k - 1 /\ ~r.self.hangs
    IN  /\ Moved(parse_sentencia(SelfAt(k)))
        /\ Moved(ListaDeclaracionBody(SelfAt(k)))

\* what parse has left to do: the tokens from the current one on, and the
\* steps before and after the loop
Remaining ==
    IF phase = "syn" THEN Len(syn_tokens) + 2
    ELSE IF phase = "lista" THEN Len(syn_tokens) - current_token_index + 1
    ELSE 0

\* C24: parse returns on every token sequence: each iteration of the loops
\* of parse_lista_declaracion and parse_lista_sentencias consumes at least
\* one token, whichever token it starts at, no loop hangs, every step of
\* parse leaves less to do, and parse ends with the program node.
C24_ParseReturns ==
    /\ [](\A k \in 1..Len(syn_tokens) : Consumes(k))
    /\ [][Remaining' < Remaining /\ Remaining' >= 0]_vars
    /\ [](phase # "hung")
    /\ [](phase = "parsed" => ast.node_type = "programa")

\* parse has returned from a program with errors after at least one
\* iteration of the loop that needed recovery
C24_Witness ==
    /\ phase = "parsed"
    /\ Len(syn_errors) >= 2
    /\ \E k \in 1..Len(ast.children) : ast.children[k].node_type = "lista_declaracion"
    /\ \E e \in 1..Len(syn_errors) : syn_errors[e].description = "Sentencia no valida: {}"

\* the tokens whose absence the grammar does not allow
Required == {<<";">>, KwEnd, <<"}">>}

\* the well-formed programs with one required token taken out
MissingRequired ==
    UNION {{OneLine(Without(p, k)) : k \in {h \in 1..Len(p) : p[h].value \in Required}} :
           p \in GoodPrograms}

\* C25: the error list is empty only for token sequences that conform to
\* the grammar: a program missing a required ; end or } has an error.
C25_MissingTokenIsAnError ==
    (phase = "parsed" /\ syn_tokens \in MissingRequired) => syn_errors # <<>>

====
